---- MODULE Spec2Model ----
(***************************************************************************)
(* Task execution engine of Bored_Bot: the worker loop (app/worker/main.py),*)
(* the executor (app/worker/executor.py), the GenAPI client                 *)
(* (app/genapi/client.py), the Telegram file fetch                          *)
(* (app/worker/telegram_files.py) and the local artifact store              *)
(* (app/storage/local.py), with the task table written by the submission    *)
(* API (app/api/routes.py).                                                 *)
(*                                                                          *)
(* Time is counted in ticks since the deadline of the running timed         *)
(* operation (poll, download) was set; only differences to that deadline    *)
(* are read by the code.  Text messages are sequences of string tokens.     *)
(***************************************************************************)
EXTENDS Integers, Sequences, FiniteSets, TLC

VARIABLES tasks, store, wpc, cur, loc, http, clock, obs, subs, w2, env, call,
          registry, wait

vars == <<tasks, store, wpc, cur, loc, http, clock, obs, subs, w2, env, call, registry, wait>>

(***************************************************************************)
(* Bounds of the model.                                                     *)
(***************************************************************************)
MaxTasks == 1
MaxLoopTasks == 2
MaxTwoTasks == 1
MaxIoTasks == 1
MaxRegTasks == 2
MaxSubmitTasks == 1
MaxWaitTasks == 1
WaitTimeoutTicks == 2
PollTimeoutTicks == 2
DownloadTimeoutTicks == 1
MaxReqTicks == 1
MaxSleepTicks == 1

(***************************************************************************)
(* Program constants.                                                       *)
(***************************************************************************)
max_submit_retries == 6
max_poll_retries == 6
TgAttempts == 6
MAX_INPUT_FILES == 2
MAX_INPUT_FILE_SIZE_MB == 10

None == "None"
NoError == <<>>
NoIds == <<>>

Terminal == {"success", "failed"}

(***************************************************************************)
(* Preset registry (a sample of the registered presets, one per shape;      *)
(* params holds the keys of the preset's default parameters).               *)
(***************************************************************************)
PRESETS ==
  [s \in {"suno", "grok", "seedvr_x2", "img_nb_std_create", "img_nb_std_edit"} |->
     CASE s = "suno" ->
            [slug |-> s, provider_target |-> "network", input_kind |-> "none",
             input_field |-> "image_url", params |-> {"model", "translate_input"}]
       [] s = "grok" ->
            [slug |-> s, provider_target |-> "network", input_kind |-> "none",
             input_field |-> "image_url", params |-> {"model", "stream"}]
       [] s = "seedvr_x2" ->
            [slug |-> s, provider_target |-> "network", input_kind |-> "image",
             input_field |-> "image_url", params |-> {"upscale_factor"}]
       [] s = "img_nb_std_create" ->
            [slug |-> s, provider_target |-> "network", input_kind |-> "none",
             input_field |-> "image_urls",
             params |-> {"translate_input", "num_images", "output_format", "resolution"}]
       [] OTHER ->
            [slug |-> s, provider_target |-> "network", input_kind |-> "image",
             input_field |-> "image_urls",
             params |-> {"translate_input", "num_images", "output_format", "resolution"}]]

\* the default parameters of the registered presets, as the module holds
\* them while the worker runs
InitRegistry == [s \in DOMAIN PRESETS |-> PRESETS[s].params]

\* (task.preset_slug or "").strip().lower() on the sampled slugs
NormSlug(s) ==
  CASE s = " Grok " -> "grok"
    [] s = None -> ""
    [] OTHER -> s

(***************************************************************************)
(* Task inputs handed to the submission API.  input_text is the side-channel*)
(* encoding <prompt> SEP <json>, kept as its three parts.                   *)
(***************************************************************************)
NoMeta == [x \in {} |-> None]

Text(prompt, sep, valid, meta) ==
  [prompt |-> prompt, sep |-> sep, valid |-> valid, meta |-> meta]

NoText == Text("", FALSE, FALSE, NoMeta)

TaskInputs ==
  { [preset_slug |-> "dummy", input_text |-> Text("cat", FALSE, FALSE, NoMeta),
     input_tg_file_id |-> None],
    [preset_slug |-> "grok", input_text |-> Text("cat", FALSE, FALSE, NoMeta),
     input_tg_file_id |-> None],
    [preset_slug |-> "grok", input_text |-> NoText, input_tg_file_id |-> None],
    [preset_slug |-> "suno",
     input_text |-> Text("song", TRUE, TRUE, [title |-> "t", tags |-> "g"]),
     input_tg_file_id |-> None],
    [preset_slug |-> "suno",
     input_text |-> Text("song", TRUE, TRUE, [title |-> "t"]),
     input_tg_file_id |-> None],
    [preset_slug |-> "seedvr_x2", input_text |-> NoText, input_tg_file_id |-> "f1"],
    [preset_slug |-> "seedvr_x2", input_text |-> NoText, input_tg_file_id |-> None],
    [preset_slug |-> "img_nb_std_edit",
     input_text |-> Text("cat", TRUE, TRUE,
                         [tg_file_ids |-> <<"f1", "f2">>, aspect_ratio |-> "1:1",
                          quality |-> None, webhook_url |-> "https://evil/hook"]),
     input_tg_file_id |-> None],
    [preset_slug |-> "img_nb_std_edit",
     input_text |-> Text("cat", TRUE, TRUE, [tg_file_ids |-> <<"f1", "f2", "f3">>]),
     input_tg_file_id |-> "f1"] }

\* _parse_text_and_meta
ParseTextAndMeta(t) ==
  IF ~t.sep THEN [prompt |-> t.prompt, meta |-> NoMeta]
  ELSE [prompt |-> t.prompt, meta |-> IF t.valid THEN t.meta ELSE NoMeta]

MetaGet(meta, k) == IF k \in DOMAIN meta THEN meta[k] ELSE ""

(***************************************************************************)
(* Executor locals and HTTP retry-loop locals.                              *)
(***************************************************************************)
EmptyPayload == [status |-> "", urls |-> <<>>, text |-> ""]

NoResult == [status |-> None, payload |-> EmptyPayload, file_url |-> None, text |-> None]

\* a parameter dict, kept as its keys; a key maps to "empty" when its value
\* is an empty list, translate_input maps to its value ("false" for False)
\* and every other key to "value"
NoParams == [k \in {} |-> "value"]

InitLoc ==
  [tg_file_ids |-> NoIds, idx |-> 0, request_id |-> 0, result |-> NoResult,
   file_url |-> None, key |-> None, exc |-> NoError, params |-> NoParams]

InitHttp == [attempt |-> 0, last_exc |-> FALSE]

\* what the last retried HTTP call did, and which external calls the run has
\* made so far: a Telegram fetch (tg), a store write (wrote), a provider
\* POST (posted), the size of the last fetched input file, the keys of the
\* last submitted payload and its translate_input value (ti), the file
\* references handed to Telegram (got) and
\* the answer, the outcome and the time of the answer of the last download
\* attempt (dl); read by the properties only
InitObs == [sent |-> 0, fails |-> 0, code |-> 0, act |-> "none", rid |-> 0,
            fetched |-> 0, waiting |-> 0, body |-> EmptyPayload, how |-> "none",
            tg |-> FALSE, wrote |-> FALSE, posted |-> FALSE, size |-> 0,
            payload |-> {}, got |-> {}, dl |-> <<0, "none", 0>>, ti |-> ""]

\* a second worker process: its position in the loop, the task it was handed
\* and the failure it raised
InitW2 == [pc |-> "select", cur |-> 0, exc |-> NoError]

\* the front end's wait_task_done: its position, the task it waits for, the
\* time it has waited and the status it returned
NoWait == [pc |-> "idle", task |-> 0, elapsed |-> 0, status |-> None, error_message |-> NoError]

\* the last call of a helper function made on its own: the function, its
\* argument and what it returned
NoCall == [op |-> "none", arg |-> None, out |-> None]

(***************************************************************************)
(* Submission API: create_task.                                             *)
(***************************************************************************)
NewTask(inp) ==
  [preset_slug |-> inp.preset_slug, status |-> "queued",
   input_text |-> inp.input_text, input_tg_file_id |-> inp.input_tg_file_id,
   result_file_key |-> None, result_text |-> None, error_message |-> NoError]

CreateTask ==
  /\ Len(tasks) < env.max_tasks
  /\ \E inp \in env.inputs : tasks' = Append(tasks, NewTask(inp))
  /\ UNCHANGED <<store, wpc, cur, loc, http, clock, obs, subs, w2, env, call, registry, wait>>

(***************************************************************************)
(* Worker loop.                                                             *)
(***************************************************************************)
QueuedIds_NotSuccess == {i \in 1..Len(tasks) : tasks[i].status # "success"}

QueuedIds_Unfinished ==
  {i \in 1..Len(tasks) : tasks[i].status \in {"queued", "processing"}}

QueuedIds == {i \in 1..Len(tasks) : tasks[i].status = "queued"}

OldestQueued_Newest(ids) == CHOOSE i \in ids : \A j \in ids : i >= j

\* select ... where status == queued order by id asc limit 1
OldestQueued(ids) == CHOOSE i \in ids : \A j \in ids : i <= j

MainSelect ==
  /\ wpc = "select"
  /\ IF QueuedIds # {}
       THEN /\ cur' = OldestQueued(QueuedIds)
            /\ wpc' = "load"
       ELSE /\ cur' = 0
            /\ wpc' = "sleep"
  /\ loc' = InitLoc
  /\ http' = InitHttp
  /\ clock' = 0
  /\ obs' = InitObs
  /\ UNCHANGED <<tasks, store, subs, w2, env, call, registry, wait>>

MainSleep ==
  /\ wpc = "sleep"
  /\ wpc' = "select"
  /\ UNCHANGED <<tasks, store, cur, loc, http, clock, obs, subs, w2, env, call, registry, wait>>

(***************************************************************************)
(* Executor: raising and the task-record updates.                           *)
(***************************************************************************)
Raise(msg) ==
  /\ loc' = [loc EXCEPT !.exc = msg]
  /\ wpc' = "except"

ProcessingUpdate_Skipped(t) == t

ProcessingUpdate_IfQueued(t) ==
  IF t.status = "queued"
    THEN [t EXCEPT !.status = "processing", !.error_message = NoError]
    ELSE t

ProcessingUpdate(t) == [t EXCEPT !.status = "processing", !.error_message = NoError]

SuccessUpdate_KeepsStatus(t, key, text) ==
  [t EXCEPT !.result_file_key = key, !.result_text = text]

SuccessUpdate(t, key, text) ==
  [t EXCEPT !.status = "success", !.result_file_key = key, !.result_text = text]

FailedUpdate_NoMessage(t, msg) == [t EXCEPT !.status = "failed"]

FailedUpdate_Generic(t, msg) ==
  [t EXCEPT !.status = "failed", !.error_message = <<"Task failed">>]

FailedUpdate_KeepsStatus(t, msg) == [t EXCEPT !.error_message = msg]

FailedUpdate(t, msg) == [t EXCEPT !.status = "failed", !.error_message = msg]

ExecLoad ==
  /\ wpc = "load"
  /\ LET slug == NormSlug(tasks[cur].preset_slug) IN
       IF slug \in DOMAIN PRESETS
         THEN /\ wpc' = "mark_processing"
              /\ loc' = loc
         ELSE Raise(<<"'Preset not found: ", slug, "'">>)
  /\ UNCHANGED <<tasks, store, cur, http, clock, obs, subs, w2, env, call, registry, wait>>

ExecMarkProcessing ==
  /\ wpc = "mark_processing"
  /\ tasks' = [tasks EXCEPT ![cur] = ProcessingUpdate(@)]
  /\ wpc' = "prepare"
  /\ UNCHANGED <<store, cur, loc, http, clock, obs, subs, w2, env, call, registry, wait>>

ExecExcept ==
  /\ wpc = "except"
  /\ tasks' = [tasks EXCEPT ![cur] = FailedUpdate(@, loc.exc)]
  /\ wpc' = "select"
  /\ loc' = InitLoc
  /\ http' = InitHttp
  /\ clock' = 0
  /\ obs' = InitObs
  /\ UNCHANGED <<store, cur, subs, w2, env, call, registry, wait>>

(***************************************************************************)
(* Executor: parameters and required inputs (before any external call).     *)
(***************************************************************************)
\* the checks of the suno and grok branches
PrepareError(slug, parsed) ==
  CASE slug = "suno" /\ ( \/ MetaGet(parsed.meta, "title") = ""
                          \/ MetaGet(parsed.meta, "tags") = ""
                          \/ (MetaGet(parsed.meta, "prompt") = "" /\ parsed.prompt = "") )
         -> <<"Suno requires title, tags, prompt">>
    [] slug = "grok" /\ parsed.prompt = "" -> <<"Grok requires prompt text">>
    [] OTHER -> NoError

Keys(S) == [k \in S |-> "value"]

\* dict(preset.params): every registered translate_input is False
Defaults(S) == [k \in S |-> IF k = "translate_input" THEN "false" ELSE "value"]

\* params["translate_input"] = False
TranslateOff == [k \in {"translate_input"} |-> "false"]

\* the allow-list of the img_ branch
allowed ==
  {"aspect_ratio", "image_size", "quality", "resolution", "num_images",
   "output_format", "translate_input", "tg_file_ids"}

\* preset.slug.startswith("img_")
IsImg(slug) == slug \in {"img_nb_std_create", "img_nb_std_edit"}

\* for k, v in meta.items(): if k in allowed and v is not None: params[k] = v
MergeMeta(meta, keys) ==
  [k \in {x \in DOMAIN meta \cap keys : x = "tg_file_ids" \/ meta[x] # None} |->
     IF k = "tg_file_ids" /\ meta[k] = <<>> THEN "empty"
     ELSE IF k = "translate_input" THEN meta[k]
     ELSE "value"]

BuildParams_MergeAll(preset, parsed) ==
  LET base == Defaults(preset.params) IN
  CASE preset.slug = "suno" ->
         TranslateOff @@ Keys({"title", "tags", "prompt", "model"}) @@ base
    [] preset.slug = "grok" -> Keys({"messages", "model", "stream"}) @@ base
    [] IsImg(preset.slug) ->
         MergeMeta(parsed.meta, DOMAIN parsed.meta)
           @@ TranslateOff @@ Keys(IF parsed.prompt # "" THEN {"prompt"} ELSE {})
           @@ base
    [] OTHER -> base

\* params = dict(preset.params) and the suno, grok and img_ branches
BuildParams(preset, parsed) ==
  LET base == Defaults(preset.params) IN
  CASE preset.slug = "suno" ->
         TranslateOff @@ Keys({"title", "tags", "prompt", "model"}) @@ base
    [] preset.slug = "grok" -> Keys({"messages", "model", "stream"}) @@ base
    [] IsImg(preset.slug) ->
         MergeMeta(parsed.meta, allowed)
           @@ TranslateOff @@ Keys(IF parsed.prompt # "" THEN {"prompt"} ELSE {})
           @@ base
    [] OTHER -> base

\* [str(x) for x in v if x]
ListedIds(v) == SelectSeq(v, LAMBDA x : x \notin {"", None})

InputFileIds_LegacyFirst(t, parsed) ==
  IF t.input_tg_file_id \notin {None, ""} THEN <<t.input_tg_file_id>>
  ELSE IF "tg_file_ids" \in DOMAIN parsed.meta
    THEN ListedIds(parsed.meta["tg_file_ids"]) ELSE NoIds

AfterWrites_Shared(reg, slug, params) == [reg EXCEPT ![slug] = DOMAIN params]

\* the registry after the executor's writes to params: params is
\* dict(preset.params or {}), a dict of its own, so the preset's dict is
\* not written
AfterWrites(reg, slug, params) == reg

\* get_preset: the registered preset with the default parameters it holds now
GetPreset(slug) == [PRESETS[slug] EXCEPT !.params = registry[slug]]

\* tg_file_ids of the metadata, else the single legacy reference
InputFileIds(t, parsed) ==
  LET listed == IF "tg_file_ids" \in DOMAIN parsed.meta
                  THEN ListedIds(parsed.meta["tg_file_ids"]) ELSE NoIds
  IN  IF listed # NoIds THEN listed
      ELSE IF t.input_tg_file_id \notin {None, ""} THEN <<t.input_tg_file_id>>
      ELSE NoIds

TooManyFiles_OneMore(count) == count > MAX_INPUT_FILES + 1

\* _ensure_file_count
TooManyFiles(count) == count > MAX_INPUT_FILES

ExecPrepare ==
  /\ wpc = "prepare"
  /\ LET preset == GetPreset(NormSlug(tasks[cur].preset_slug))
         parsed == ParseTextAndMeta(tasks[cur].input_text)
         err    == PrepareError(preset.slug, parsed)
         ids    == InputFileIds(tasks[cur], parsed)
         params == BuildParams(preset, parsed)
     IN  IF err # NoError
           THEN Raise(err) /\ registry' = registry
         ELSE IF preset.input_kind = "none"
           THEN /\ wpc' = "submit"
                /\ loc' = [loc EXCEPT !.params = params]
                /\ registry' = AfterWrites(registry, preset.slug, params)
         ELSE IF ids = NoIds
           THEN /\ Raise(<<"No input file. Send image file.">>)
                /\ registry' = AfterWrites(registry, preset.slug, params)
         ELSE IF TooManyFiles(Len(ids))
           THEN /\ Raise(<<"Too many files: max ", ToString(MAX_INPUT_FILES)>>)
                /\ registry' = AfterWrites(registry, preset.slug, params)
         ELSE /\ wpc' = "fetch"
              /\ loc' = [loc EXCEPT !.tg_file_ids = ids, !.idx = 1, !.params = params]
              /\ registry' = AfterWrites(registry, preset.slug, params)
  /\ http' = InitHttp
  /\ UNCHANGED <<tasks, store, cur, clock, obs, subs, w2, env, call, wait>>

(***************************************************************************)
(* Input files: tg_download_file, size check, staging in the store.         *)
(***************************************************************************)
TgOutcomes == {"ok", "big", "retry", "fatal", "store_err"}

\* size in MB of the fetched file
FetchedSize(o) == IF o = "big" THEN MAX_INPUT_FILE_SIZE_MB + 1 ELSE 1

FileTooLarge_Never(size) == FALSE

\* _ensure_file_size
FileTooLarge(size) == size > MAX_INPUT_FILE_SIZE_MB

UploadKey(task_id, slug, idx, ext) ==
  "uploads/task_" \o ToString(task_id) \o "_" \o slug \o "_" \o ToString(idx) \o ext

\* key.strip("/").replace("\\", "/") on the sampled keys; the keys the
\* executor builds start with uploads/ or results/ and hold no backslash
SafeKey(key) ==
  CASE key = "/results/x.bin/" -> "results/x.bin"
    [] OTHER -> key

SaveBytes_Nothing(files, key) == files

\* save_bytes: the file is written under FILES_DIR / safe_key
SaveBytes(files, key) == files \cup {SafeKey(key)}

ExecFetch ==
  /\ wpc = "fetch"
  /\ \E o \in env.tg :
       LET preset == PRESETS[NormSlug(tasks[cur].preset_slug)]
           slug   == preset.slug
           key    == UploadKey(cur, slug, loc.idx, ".png")
           \* params["image_urls"] = urls, else params[preset.input_field] = urls[0]
           field  == preset.input_field
           fid    == loc.tg_file_ids[loc.idx]
       IN
       CASE o = "retry" ->
              IF http.attempt = TgAttempts - 1
                THEN /\ Raise(<<"telegram request failed">>)
                     /\ UNCHANGED <<http, store>>
                     /\ obs' = [obs EXCEPT !.got = @ \cup {fid}, !.tg = TRUE]
                ELSE /\ http' = [http EXCEPT !.attempt = @ + 1]
                     /\ UNCHANGED <<loc, wpc, store>>
                     /\ obs' = [obs EXCEPT !.got = @ \cup {fid}, !.tg = TRUE]
         [] o = "fatal" ->
              /\ Raise(<<"Telegram getFile failed: ", "{ok: false}">>)
              /\ UNCHANGED <<http, store>>
              /\ obs' = [obs EXCEPT !.got = @ \cup {fid}, !.tg = TRUE]
         [] o \in {"ok", "big"} /\ FileTooLarge(FetchedSize(o)) ->
              /\ Raise(<<"File too large ", "a.png", ToString(FetchedSize(o)),
                         "limit ", ToString(MAX_INPUT_FILE_SIZE_MB)>>)
              /\ UNCHANGED <<http, store>>
              /\ obs' = [obs EXCEPT !.got = @ \cup {fid}, !.tg = TRUE, !.size = FetchedSize(o)]
         [] o = "store_err" ->
              /\ Raise(<<"OSError: ", key>>)
              /\ UNCHANGED <<http, store>>
              /\ obs' = [obs EXCEPT !.got = @ \cup {fid}, !.tg = TRUE, !.size = FetchedSize(o)]
         [] OTHER ->
              /\ store' = SaveBytes(store, key)
              /\ obs' = [obs EXCEPT !.got = @ \cup {fid}, !.tg = TRUE, !.wrote = TRUE, !.size = FetchedSize(o)]
              /\ http' = InitHttp
              /\ IF loc.idx = Len(loc.tg_file_ids)
                   THEN /\ wpc' = "submit"
                        /\ loc' = [loc EXCEPT !.params = Keys({field}) @@ @]
                   ELSE /\ wpc' = wpc
                        /\ loc' = [loc EXCEPT !.idx = @ + 1]
  /\ registry' = IF wpc' = "submit"
                   THEN AfterWrites(registry, NormSlug(tasks[cur].preset_slug), loc'.params)
                   ELSE registry
  /\ UNCHANGED <<tasks, cur, clock, subs, w2, env, call, wait>>

(***************************************************************************)
(* GenAPI client: the retried HTTP call.                                    *)
(***************************************************************************)
Codes == {200, 404, 419, 429, 501, 503}

RetryableStatus_All5xx(code) == code = 419 \/ code >= 500

\* r.status_code in (419, 500, 502, 503, 504)
RetryableStatus(code) == code \in {419, 500, 502, 503, 504}

LastAttempt_OneEarly(attempt, max_retries) == attempt = max_retries - 1

\* attempt == max_retries
LastAttempt(attempt, max_retries) == attempt = max_retries

\* hard_deadline is not None and time.time() > hard_deadline
DeadlinePassed(now, deadline) == now > deadline

\* _sleep_bounded: the sleep is cut at the deadline and skipped after it
SleepBounded(now, seconds, deadline) ==
  IF deadline - now <= 0 THEN now
  ELSE now + (IF seconds < deadline - now THEN seconds ELSE deadline - now)

SleepTicks == 1..MaxSleepTicks

ReqTicks == 0..MaxReqTicks

\* what one iteration of the retry loop does with a response status
\* (code 0 stands for a timeout or connection error)
Verdict(code, attempt, max_retries) ==
  IF code = 0
    THEN IF LastAttempt(attempt, max_retries) THEN "raise" ELSE "retry"
    ELSE IF RetryableStatus(code)
      THEN IF LastAttempt(attempt, max_retries) THEN "return" ELSE "retry"
      ELSE "return"

Observe(code, v) ==
  [obs EXCEPT !.sent = @ + 1, !.code = code, !.act = v,
              !.fails = IF code = 0 \/ RetryableStatus(code) THEN @ + 1 ELSE @]

(***************************************************************************)
(* submit_network / _submit.                                                *)
(***************************************************************************)
RequestIdOf(task_id) == 100 + task_id

\* _clean_payload: keys whose value is None or an empty list or dict go
CleanPayload(p) == [k \in {x \in DOMAIN p : p[x] # "empty"} |-> p[k]]

SubmitPayload_AsBuilt(params) == CleanPayload(params)

\* params["translate_input"] = False, then the payload of _submit
SubmitPayload(params) == CleanPayload(TranslateOff @@ params)

ExecSubmit ==
  /\ wpc = "submit"
  /\ \E code \in env.codes, has_id \in BOOLEAN, lost \in BOOLEAN :
       LET v == Verdict(code, http.attempt, max_submit_retries) IN
       /\ (code # 200 => has_id = FALSE)
       /\ (code = 200 /\ ~has_id => env.loose)
       \* a timeout or connection error may come after the provider took
       \* the request: the response is lost, the submission is not
       /\ (lost => code = 0 /\ env.lost)
       /\ obs' = [Observe(code, v) EXCEPT
                    !.posted = TRUE,
                    !.payload = DOMAIN SubmitPayload(loc.params),
                    !.ti = IF "translate_input" \in DOMAIN SubmitPayload(loc.params)
                             THEN SubmitPayload(loc.params)["translate_input"]
                             ELSE "",
                    !.rid = IF has_id THEN RequestIdOf(cur) ELSE 0,
                    !.how = IF v = "retry" THEN "none"
                            ELSE IF v = "return" /\ has_id THEN "submit_return"
                            ELSE "submit_raise"]
       /\ CASE v = "retry" ->
                 /\ http' = [attempt |-> http.attempt + 1,
                             last_exc |-> (http.last_exc \/ code = 0)]
                 /\ UNCHANGED <<wpc, loc, clock>>
            [] v = "raise" ->
                 /\ Raise(<<"GenAPI request failed after retries: ", "POST">>)
                 /\ UNCHANGED <<http, clock>>
            [] OTHER ->
                 IF code >= 400
                   THEN /\ Raise(<<"GenAPI HTTP ", ToString(code), " for ">>)
                        /\ UNCHANGED <<http, clock>>
                 ELSE IF ~has_id
                   THEN /\ Raise(<<"GenAPI: no request_id in response from ">>)
                        /\ UNCHANGED <<http, clock>>
                 ELSE /\ loc' = [loc EXCEPT !.request_id = RequestIdOf(cur)]
                      /\ wpc' = "poll"
                      /\ http' = InitHttp
                      /\ clock' = 0
       /\ subs' = IF (code = 200 /\ has_id) \/ lost THEN Append(subs, cur) ELSE subs
  /\ UNCHANGED <<tasks, store, cur, w2, env, call, registry, wait>>

(***************************************************************************)
(* Output extraction (the payload is kept as status, URL list and text).    *)
(***************************************************************************)
\* the sampled URLs, each with the substrings of its lower-cased text that
\* the code looks for (extensions and path markers)
UrlParts(u) ==
  CASE u = "https://x/a.png" -> {".png"}
    [] u = "https://x/a.mp3" -> {".mp3"}
    [] u = "https://x/b.wav" -> {".wav"}
    [] u = "https://x/input_files/a.mp3" -> {".mp3", "/input_files/"}
    [] u = "https://x/uploads/a.mp3" -> {".mp3", "/uploads/"}
    [] u = "https://x/cover.mp3" -> {".mp3", "cover"}
    [] u = "https://x/a.json" -> {".json"}
    [] OTHER -> {}

Urls ==
  {"https://x/a.png", "https://x/a.mp3", "https://x/b.wav",
   "https://x/input_files/a.mp3", "https://x/uploads/a.mp3",
   "https://x/cover.mp3", "https://x/a.json"}

\* the first extension of the list contained in the URL, else dflt
FirstExt(u, exts, dflt) ==
  IF \E i \in 1..Len(exts) : exts[i] \in UrlParts(u)
    THEN exts[CHOOSE i \in 1..Len(exts) :
                /\ exts[i] \in UrlParts(u)
                /\ \A j \in 1..(i - 1) : exts[j] \notin UrlParts(u)]
    ELSE dflt

\* the extension of the artifact key
KeyExts ==
  <<".mp3", ".wav", ".mp4", ".mov", ".webm", ".png", ".jpg", ".jpeg", ".webp",
    ".gif", ".txt", ".json">>

UrlExt(u) == FirstExt(u, KeyExts, ".bin")

\* prio_ext of the client's and of the executor's _pick_best_url
ClientPrioExt ==
  <<".mp3", ".wav", ".mp4", ".mov", ".webm", ".png", ".jpg", ".jpeg", ".webp",
    ".gif", ".zip", ".json", ".txt">>

ExecutorPrioExt ==
  <<".mp3", ".wav", ".mp4", ".mov", ".webm", ".png", ".jpg", ".jpeg", ".webp",
    ".gif", ".zip">>

\* ext_rank: the index of the first listed extension contained in the URL
ExtRank(u, prio) ==
  IF \E i \in 1..Len(prio) : prio[i] \in UrlParts(u)
    THEN (CHOOSE i \in 1..Len(prio) :
            /\ prio[i] \in UrlParts(u)
            /\ \A j \in 1..(i - 1) : prio[j] \notin UrlParts(u)) - 1
    ELSE 999

ClientScore(u) ==
  <<ExtRank(u, ClientPrioExt),
    (IF "/input_files/" \in UrlParts(u) THEN 5 ELSE 0)
      + (IF "/uploads/" \in UrlParts(u) THEN 2 ELSE 0)>>

ExecutorScore(u) ==
  <<ExtRank(u, ExecutorPrioExt),
    (IF "cover" \in UrlParts(u) THEN 5 ELSE 0)
      + (IF "/input_files/" \in UrlParts(u) THEN 4 ELSE 0)>>

\* tuple order of the sort keys
ScoreLess(a, b) == a[1] < b[1] \/ (a[1] = b[1] /\ a[2] < b[2])

FirstLowest_LastOfLowest(urls, scores) ==
  urls[CHOOSE i \in 1..Len(urls) :
         /\ \A j \in 1..Len(urls) : ~ScoreLess(scores[j], scores[i])
         /\ \A j \in (i + 1)..Len(urls) : ScoreLess(scores[i], scores[j])]

\* sorted(urls, key=score)[0], given the scores of the URLs: the sort is
\* stable, the first URL of the lowest score wins
FirstLowest(urls, scores) ==
  urls[CHOOSE i \in 1..Len(urls) :
         /\ \A j \in 1..Len(urls) : ~ScoreLess(scores[j], scores[i])
         /\ \A j \in 1..(i - 1) : ScoreLess(scores[i], scores[j])]

\* _pick_best_url of the client
PickBestUrl(urls) ==
  IF urls = <<>> THEN None
  ELSE FirstLowest(urls, [i \in 1..Len(urls) |-> ClientScore(urls[i])])

\* _pick_best_url of the executor
ExecutorPickBestUrl(urls) ==
  IF urls = <<>> THEN None
  ELSE FirstLowest(urls, [i \in 1..Len(urls) |-> ExecutorScore(urls[i])])

\* _extract_best_output
ExtractBestOutput(payload) ==
  [file_url |-> PickBestUrl(payload.urls),
   text |-> IF payload.text = "" THEN None ELSE payload.text]

\* str(result.payload)
PayloadRepr(p) ==
  IF p = EmptyPayload THEN <<"{}">>
  ELSE <<"{'status': ", p.status>> \o p.urls \o <<p.text, "}">>

(***************************************************************************)
(* poll.                                                                    *)
(***************************************************************************)
TimeoutText == "Timeout waiting GenAPI result"

TimeoutResult ==
  [status |-> "failed", payload |-> EmptyPayload, file_url |-> None, text |-> TimeoutText]

PollBodies ==
  { [status |-> st, urls |-> <<>>, text |-> ""] : st \in {"processing", "queued", ""} }
  \cup { [status |-> "success", urls |-> u, text |-> t] :
           u \in {<<>>, <<"https://x/a.png">>}, t \in {"", "hello"} }
  \cup { [status |-> "failed", urls |-> <<>>, text |-> ""] }

\* js.get("status") or js.get("state") or "unknown"
StatusOf(js) == IF js.status = "" THEN "unknown" ELSE js.status

IsTerminalStatus_NotProcessing(st) == st # "processing"

\* status in ("success", "failed")
IsTerminalStatus(st) == st \in {"success", "failed"}

PollResult(js) ==
  [status |-> StatusOf(js), payload |-> js,
   file_url |-> ExtractBestOutput(js).file_url, text |-> ExtractBestOutput(js).text]

PollCheck ==
  /\ wpc = "poll"
  /\ IF DeadlinePassed(clock, PollTimeoutTicks)
       THEN /\ loc' = [loc EXCEPT !.result = TimeoutResult]
            /\ wpc' = "after_poll"
            /\ obs' = [obs EXCEPT !.how = "poll_return"]
       ELSE /\ wpc' = "poll_req"
            /\ loc' = loc
            /\ obs' = [obs EXCEPT !.sent = 0, !.fails = 0, !.code = 0, !.act = "none",
                                  !.rid = 0, !.how = "polling"]
  /\ http' = InitHttp
  /\ UNCHANGED <<tasks, store, cur, clock, subs, w2, env, call, registry, wait>>

PollRequest ==
  /\ wpc = "poll_req"
  /\ IF DeadlinePassed(clock, PollTimeoutTicks)
       THEN /\ IF http.last_exc
                 THEN Raise(<<"GenAPI request failed after retries: ", "GET">>)
                 ELSE Raise(<<"GenAPI request aborted by deadline: ", "GET">>)
            /\ obs' = [obs EXCEPT !.act = "break", !.how = "poll_raise"]
            /\ UNCHANGED <<http, clock>>
       ELSE \E d \in ReqTicks, code \in env.codes, js \in env.bodies, s \in SleepTicks :
              LET v == Verdict(code, http.attempt, max_poll_retries)
                  now == clock + d
              IN
              /\ (code # 200 => js.status = "" /\ s = 1)
              /\ CASE v = "retry" ->
                        /\ http' = [attempt |-> http.attempt + 1,
                                    last_exc |-> (http.last_exc \/ code = 0)]
                        /\ clock' = SleepBounded(now, s, PollTimeoutTicks)
                        /\ obs' = Observe(code, v)
                        /\ UNCHANGED <<wpc, loc>>
                   [] v = "raise" ->
                        /\ Raise(<<"GenAPI request failed after retries: ", "GET">>)
                        /\ clock' = now
                        /\ obs' = [Observe(code, v) EXCEPT !.how = "poll_raise"]
                        /\ UNCHANGED http
                   [] OTHER ->
                        IF code >= 400
                          THEN /\ Raise(<<"GenAPI HTTP ", ToString(code), " while polling ">>)
                               /\ clock' = now
                               /\ obs' = [Observe(code, v) EXCEPT !.how = "poll_raise"]
                               /\ UNCHANGED http
                        ELSE IF IsTerminalStatus(StatusOf(js))
                          THEN /\ loc' = [loc EXCEPT !.result = PollResult(js)]
                               /\ wpc' = "after_poll"
                               /\ clock' = now
                               /\ obs' = [Observe(code, v) EXCEPT
                                            !.fetched = @ + 1, !.body = js,
                                            !.how = "poll_return"]
                               /\ UNCHANGED http
                        ELSE /\ wpc' = "poll"
                             /\ clock' = now + s
                             /\ obs' = [Observe(code, v) EXCEPT
                                          !.fetched = @ + 1, !.waiting = @ + 1]
                             /\ UNCHANGED <<loc, http>>
  /\ UNCHANGED <<tasks, store, cur, subs, w2, env, call, registry, wait>>

(***************************************************************************)
(* Executor: after the poll, the output download and the success update.    *)
(***************************************************************************)
\* the result URL: the extractor's choice, for suno an audio URL when there
\* is one, else the executor's own pick over all URLs
ChooseFileUrl(slug, result) ==
  LET all_urls   == result.payload.urls
      audio_urls == SelectSeq(all_urls, LAMBDA u : UrlExt(u) \in {".mp3", ".wav"})
      first      == IF slug = "suno" /\ audio_urls # <<>>
                      THEN ExecutorPickBestUrl(audio_urls) ELSE result.file_url
  IN  IF first = None /\ all_urls # <<>> THEN ExecutorPickBestUrl(all_urls) ELSE first

ResultKey(task_id, slug, ext) ==
  "results/task_" \o ToString(task_id) \o "_" \o slug \o ext

DefaultText == "Done"

\* result.text or the default text
ResultText(result) == IF result.text \in {None, ""} THEN DefaultText ELSE result.text

GenApiFailed_TextOnly(result) == <<"GenAPI failed: ", result.text>>

\* RuntimeError(f"GenAPI failed: {result.payload}")
GenApiFailed(result) == <<"GenAPI failed: ">> \o PayloadRepr(result.payload)

ResultFailed_OrEmpty(result) ==
  result.status # "success" \/ (result.payload.urls = <<>> /\ result.text = None)

\* result.status != "success"
ResultFailed(result) == result.status # "success"

ExecAfterPoll ==
  /\ wpc = "after_poll"
  /\ LET slug == PRESETS[NormSlug(tasks[cur].preset_slug)].slug
         url  == ChooseFileUrl(slug, loc.result)
     IN  IF ResultFailed(loc.result)
           THEN Raise(GenApiFailed(loc.result))
         ELSE /\ loc' = [loc EXCEPT !.file_url = url]
              /\ wpc' = IF url # None THEN "download" ELSE "mark_success"
  /\ clock' = 0
  /\ http' = InitHttp
  /\ obs' = [InitObs EXCEPT !.tg = obs.tg, !.wrote = obs.wrote, !.posted = obs.posted]
  /\ UNCHANGED <<tasks, store, cur, subs, w2, env, call, registry, wait>>

DownloadCodes == {200, 404, 429, 503}

DownloadRetryable_All5xx(code) == code = 429 \/ code >= 500

\* r.status_code in (500, 502, 503, 504, 429)
DownloadRetryable(code) == code \in {500, 502, 503, 504, 429}

ExecDownload ==
  /\ wpc = "download"
  /\ \E d \in ReqTicks, code \in env.dl_codes, s \in SleepTicks, saved \in BOOLEAN :
       LET now  == clock + d
           slug == PRESETS[NormSlug(tasks[cur].preset_slug)].slug
           key  == ResultKey(cur, slug, UrlExt(loc.file_url))
       IN
       /\ (code # 200 => saved)
       /\ (~saved => env.loose)
       /\ IF code = 0 \/ DownloadRetryable(code)
            THEN IF DeadlinePassed(now, DownloadTimeoutTicks)
                   THEN /\ Raise(<<"Download failed by deadline: ", ToString(code)>>)
                        /\ clock' = now
                        /\ store' = store
                   ELSE /\ clock' = now + s
                        /\ UNCHANGED <<loc, wpc, store>>
          ELSE IF code >= 400
            THEN /\ Raise(<<"HTTPStatusError ", ToString(code)>>)
                 /\ clock' = now
                 /\ store' = store
          ELSE IF ~saved
            THEN /\ Raise(<<"OSError: ", key>>)
                 /\ clock' = now
                 /\ store' = store
          ELSE /\ store' = SaveBytes(store, key)
               /\ loc' = [loc EXCEPT !.key = key]
               /\ wpc' = "mark_success"
               /\ clock' = now
       /\ obs' = [obs EXCEPT
                    !.wrote = (code = 200 /\ saved) \/ @,
                    !.dl = <<code,
                             IF code = 0 \/ DownloadRetryable(code)
                               THEN IF DeadlinePassed(now, DownloadTimeoutTicks)
                                      THEN "deadline" ELSE "retry"
                             ELSE IF code >= 400 THEN "fatal"
                             ELSE IF ~saved THEN "store_err" ELSE "saved",
                             now>>]
  /\ UNCHANGED <<tasks, cur, http, subs, w2, env, call, registry, wait>>

ExecMarkSuccess ==
  /\ wpc = "mark_success"
  /\ tasks' = [tasks EXCEPT ![cur] = SuccessUpdate(@, loc.key, ResultText(loc.result))]
  /\ wpc' = "select"
  /\ loc' = InitLoc
  /\ http' = InitHttp
  /\ clock' = 0
  /\ obs' = InitObs
  /\ UNCHANGED <<store, cur, subs, w2, env, call, registry, wait>>

(***************************************************************************)
(* Environments: what the submission API, Telegram, the provider and the    *)
(* file host may answer.  The full environment holds every sampled answer;  *)
(* the loop environment holds a few of them, for runs over several tasks.   *)
(***************************************************************************)
FullEnv ==
  [inputs |-> TaskInputs, max_tasks |-> MaxTasks, tg |-> TgOutcomes,
   codes |-> Codes \cup {0}, bodies |-> PollBodies,
   dl_codes |-> DownloadCodes \cup {0}, loose |-> TRUE, lost |-> FALSE]

LoopInputs ==
  { inp \in TaskInputs :
      \/ inp.preset_slug = "seedvr_x2" /\ inp.input_tg_file_id = "f1"
      \/ inp.preset_slug = "grok" /\ inp.input_text = NoText
      \/ inp.preset_slug = "dummy" }

LoopEnv ==
  [inputs |-> LoopInputs, max_tasks |-> MaxLoopTasks, tg |-> {"ok", "retry"},
   codes |-> {0, 200, 503},
   bodies |-> { b \in PollBodies : \/ b.status \in {"processing", "failed"}
                                   \/ b.status = "success" /\ b.urls # <<>> /\ b.text # "" },
   dl_codes |-> {200, 503}, loose |-> FALSE, lost |-> FALSE]

Start ==
  /\ tasks = <<>>
  /\ store = {}
  /\ wpc = "select"
  /\ cur = 0
  /\ loc = InitLoc
  /\ http = InitHttp
  /\ clock = 0
  /\ obs = InitObs
  /\ subs = <<>>
  /\ w2 = InitW2
  /\ call = NoCall
  /\ registry = InitRegistry
  /\ wait = NoWait

Init ==
  /\ Start
  /\ env = FullEnv

InitLoop ==
  /\ Start
  /\ env = LoopEnv

(***************************************************************************)
(* A task store that may fail: an update or commit of the executor raises.  *)
(***************************************************************************)
DbError == <<"OperationalError: ", "server closed the connection">>

ExecMarkProcessingDbFail ==
  /\ wpc = "mark_processing"
  /\ Raise(DbError)
  /\ UNCHANGED <<tasks, store, cur, http, clock, obs, subs, w2, env, call, registry, wait>>

ExecMarkSuccessDbFail ==
  /\ wpc = "mark_success"
  /\ Raise(DbError)
  /\ UNCHANGED <<tasks, store, cur, http, clock, obs, subs, w2, env, call, registry, wait>>

\* the update of the except block raises: nothing in execute_task or in
\* main catches it
ExecExceptDbFail ==
  /\ wpc = "except"
  /\ wpc' = "propagated"
  /\ loc' = [loc EXCEPT !.exc = DbError]
  /\ UNCHANGED <<tasks, store, cur, http, clock, obs, subs, w2, env, call, registry, wait>>

(***************************************************************************)
(* A worker process that may die at any point and is started again: the     *)
(* new process has no memory of the run, the task table and the store stay. *)
(***************************************************************************)
Crash ==
  /\ wpc' = "select"
  /\ cur' = 0
  /\ loc' = InitLoc
  /\ http' = InitHttp
  /\ clock' = 0
  /\ obs' = InitObs
  /\ UNCHANGED <<tasks, store, subs, w2, env, call, registry, wait>>

Worker ==
  \/ MainSelect
  \/ MainSleep
  \/ ExecLoad
  \/ ExecMarkProcessing
  \/ ExecPrepare
  \/ ExecFetch
  \/ ExecSubmit
  \/ PollCheck
  \/ PollRequest
  \/ ExecAfterPoll
  \/ ExecDownload
  \/ ExecMarkSuccess
  \/ ExecExcept

Next ==
  \/ CreateTask
  \/ Worker

NextDb ==
  \/ Next
  \/ ExecMarkProcessingDbFail
  \/ ExecMarkSuccessDbFail
  \/ ExecExceptDbFail

Spec == Init /\ [][Next]_vars

LoopSpec == InitLoop /\ [][Next]_vars

\* the worker is a running process: it keeps taking its next step
LiveSpec == InitLoop /\ [][Next]_vars /\ WF_vars(Worker)

SpecDb == Init /\ [][NextDb]_vars

(***************************************************************************)
(* A second worker process running the same loop.  Its run of execute_task  *)
(* is kept as the claim (select, load, update to processing), the provider  *)
(* submission and the terminal update; what lies between is any outcome.    *)
(***************************************************************************)
W2Select ==
  /\ w2.pc = "select"
  /\ w2' = IF QueuedIds # {}
            THEN [pc |-> "load", cur |-> OldestQueued(QueuedIds), exc |-> NoError]
            ELSE [pc |-> "sleep", cur |-> 0, exc |-> NoError]
  /\ UNCHANGED <<tasks, store, wpc, cur, loc, http, clock, obs, subs, env, call, registry, wait>>

W2Sleep ==
  /\ w2.pc = "sleep"
  /\ w2' = [w2 EXCEPT !.pc = "select"]
  /\ UNCHANGED <<tasks, store, wpc, cur, loc, http, clock, obs, subs, env, call, registry, wait>>

W2Load ==
  /\ w2.pc = "load"
  /\ LET slug == NormSlug(tasks[w2.cur].preset_slug) IN
       w2' = IF slug \in DOMAIN PRESETS
               THEN [w2 EXCEPT !.pc = "mark_processing"]
               ELSE [w2 EXCEPT !.pc = "except",
                               !.exc = <<"'Preset not found: ", slug, "'">>]
  /\ UNCHANGED <<tasks, store, wpc, cur, loc, http, clock, obs, subs, env, call, registry, wait>>

W2MarkProcessing ==
  /\ w2.pc = "mark_processing"
  /\ tasks' = [tasks EXCEPT ![w2.cur] = ProcessingUpdate(@)]
  /\ w2' = [w2 EXCEPT !.pc = "prepare"]
  /\ UNCHANGED <<store, wpc, cur, loc, http, clock, obs, subs, env, call, registry, wait>>

\* parameters, input files and submit_network: the submission is accepted, or
\* a step before it or the submission itself raises
W2Submit ==
  /\ w2.pc = "prepare"
  /\ \E accepted \in BOOLEAN :
       IF accepted
         THEN /\ subs' = Append(subs, w2.cur)
              /\ w2' = [w2 EXCEPT !.pc = "poll"]
         ELSE /\ subs' = subs
              /\ w2' = [w2 EXCEPT !.pc = "except", !.exc = <<"RuntimeError">>]
  /\ UNCHANGED <<tasks, store, wpc, cur, loc, http, clock, obs, env, call, registry, wait>>

\* poll, download and the success update, or a raise on the way
W2Finish ==
  /\ w2.pc = "poll"
  /\ \E ok \in BOOLEAN :
       IF ok
         THEN /\ tasks' = [tasks EXCEPT ![w2.cur] = SuccessUpdate(@, None, DefaultText)]
              /\ w2' = [w2 EXCEPT !.pc = "select"]
         ELSE /\ tasks' = tasks
              /\ w2' = [w2 EXCEPT !.pc = "except", !.exc = <<"RuntimeError">>]
  /\ UNCHANGED <<store, wpc, cur, loc, http, clock, obs, subs, env, call, registry, wait>>

W2Except ==
  /\ w2.pc = "except"
  /\ tasks' = [tasks EXCEPT ![w2.cur] = FailedUpdate(@, w2.exc)]
  /\ w2' = [w2 EXCEPT !.pc = "select", !.exc = NoError]
  /\ UNCHANGED <<store, wpc, cur, loc, http, clock, obs, subs, env, call, registry, wait>>

Worker2 ==
  \/ W2Select
  \/ W2Sleep
  \/ W2Load
  \/ W2MarkProcessing
  \/ W2Submit
  \/ W2Finish
  \/ W2Except

NextTwo ==
  \/ Next
  \/ Worker2

\* the environment of the runs with two workers: tasks of one preset with an
\* input file, a provider that answers 200 or 503
TwoEnv ==
  [inputs |-> { inp \in TaskInputs :
                  inp.preset_slug = "seedvr_x2" /\ inp.input_tg_file_id = "f1" },
   max_tasks |-> MaxTwoTasks, tg |-> {"ok"}, codes |-> {200, 503},
   bodies |-> { b \in PollBodies : \/ b.status \in {"processing", "failed"}
                                   \/ b.status = "success" /\ b.urls # <<>> /\ b.text # "" },
   dl_codes |-> {200}, loose |-> FALSE, lost |-> FALSE]

InitTwo ==
  /\ Start
  /\ env = TwoEnv

TwoSpec == InitTwo /\ [][NextTwo]_vars

\* the environment of the runs that look at the input files and at the
\* output of a task: the provider accepts every call, every input file has a
\* list of references, a legacy reference, both or neither, and the file
\* host may answer the download with any sampled status
IoInputs ==
  { [preset_slug |-> "grok", input_text |-> Text("cat", FALSE, FALSE, NoMeta),
     input_tg_file_id |-> None],
    [preset_slug |-> "seedvr_x2", input_text |-> NoText, input_tg_file_id |-> "f1"],
    [preset_slug |-> "seedvr_x2", input_text |-> NoText, input_tg_file_id |-> None],
    [preset_slug |-> "img_nb_std_edit",
     input_text |-> Text("cat", TRUE, TRUE, [tg_file_ids |-> <<"f2">>]),
     input_tg_file_id |-> "f1"],
    [preset_slug |-> "img_nb_std_edit",
     input_text |-> Text("cat", TRUE, TRUE, [tg_file_ids |-> <<"", "f2", "f3">>]),
     input_tg_file_id |-> "f1"],
    [preset_slug |-> "img_nb_std_edit",
     input_text |-> Text("cat", TRUE, TRUE, [tg_file_ids |-> <<>>]),
     input_tg_file_id |-> "f1"],
    [preset_slug |-> "img_nb_std_edit",
     input_text |-> Text("cat", TRUE, TRUE, [tg_file_ids |-> <<>>]),
     input_tg_file_id |-> None] }

IoEnv ==
  [inputs |-> IoInputs, max_tasks |-> MaxIoTasks, tg |-> {"ok"},
   codes |-> {200}, bodies |-> PollBodies,
   dl_codes |-> DownloadCodes \cup {0, 501}, loose |-> FALSE, lost |-> FALSE]

InitIo ==
  /\ Start
  /\ env = IoEnv

IoSpec == InitIo /\ [][Next]_vars

\* the environment of the runs that look at the preset registry: tasks of
\* one preset with and without overrides in their metadata, a slug written
\* with spaces and capitals and an unregistered slug; every call is answered
RegInputs ==
  { [preset_slug |-> "img_nb_std_edit",
     input_text |-> Text("cat", TRUE, TRUE, [aspect_ratio |-> "1:1"]),
     input_tg_file_id |-> "f1"],
    [preset_slug |-> "img_nb_std_edit",
     input_text |-> Text("cat", FALSE, FALSE, NoMeta),
     input_tg_file_id |-> "f1"],
    [preset_slug |-> " Grok ", input_text |-> Text("cat", FALSE, FALSE, NoMeta),
     input_tg_file_id |-> None],
    [preset_slug |-> "dummy", input_text |-> Text("cat", FALSE, FALSE, NoMeta),
     input_tg_file_id |-> None] }

RegEnv ==
  [inputs |-> RegInputs, max_tasks |-> MaxRegTasks, tg |-> {"ok"},
   codes |-> {200},
   bodies |-> { b \in PollBodies : b.status = "success" /\ b.text # "" },
   dl_codes |-> {200}, loose |-> FALSE, lost |-> FALSE]

InitReg ==
  /\ Start
  /\ env = RegEnv

RegSpec == InitReg /\ [][Next]_vars

\* the environment of the runs that look at what the provider receives and
\* accepts: a POST may be answered, time out before it reaches the provider,
\* or time out after the provider took it; the metadata of a task may ask
\* for translate_input
SubmitInputs ==
  { [preset_slug |-> "seedvr_x2", input_text |-> NoText, input_tg_file_id |-> "f1"],
    [preset_slug |-> "img_nb_std_edit",
     input_text |-> Text("cat", TRUE, TRUE, [translate_input |-> "true"]),
     input_tg_file_id |-> "f1"],
    [preset_slug |-> "img_nb_std_create",
     input_text |-> Text("cat", TRUE, TRUE, [translate_input |-> "true"]),
     input_tg_file_id |-> None],
    [preset_slug |-> "grok", input_text |-> NoText, input_tg_file_id |-> None] }

SubmitEnv ==
  [inputs |-> SubmitInputs, max_tasks |-> MaxSubmitTasks, tg |-> {"ok"},
   codes |-> {0, 200},
   bodies |-> { b \in PollBodies : b.status = "success" /\ b.urls # <<>> /\ b.text # "" },
   dl_codes |-> {200}, loose |-> FALSE, lost |-> TRUE]

InitSubmit ==
  /\ Start
  /\ env = SubmitEnv

SubmitSpec == InitSubmit /\ [][Next]_vars

\* every task input, valid and invalid, with a provider and a file host that
\* answer: the provider accepts or drops a request, a poll finds the task
\* processing or done, the download succeeds
InputEnv ==
  [inputs |-> TaskInputs, max_tasks |-> MaxTasks, tg |-> TgOutcomes,
   codes |-> {0, 200},
   bodies |-> { b \in PollBodies : \/ b.status = "processing"
                                   \/ b.status = "success" /\ b.urls # <<>> /\ b.text # "" },
   dl_codes |-> {200}, loose |-> FALSE, lost |-> FALSE]

InitInput ==
  /\ Start
  /\ env = InputEnv

InputSpec == InitInput /\ [][Next]_vars

(***************************************************************************)
(* The front end (app/bot): _run_and_deliver waits for the task it has      *)
(* created with wait_task_done, which reads the task through the API until  *)
(* it is terminal or the wait's own deadline has passed.  The front end and *)
(* the worker are separate processes: neither waits for the other.          *)
(***************************************************************************)
\* task = await wait_task_done(task_id, timeout_sec=1800)
WaitStart ==
  /\ wait.pc = "idle"
  /\ \E i \in DOMAIN tasks :
       wait' = [NoWait EXCEPT !.pc = "waiting", !.task = i]
  /\ UNCHANGED <<tasks, store, wpc, cur, loc, http, clock, obs, subs, w2, env, call, registry>>

\* wait_task_done returns in this iteration
WaitReturn(t, elapsed) == t.status \in Terminal \/ elapsed > WaitTimeoutTicks

\* what wait_task_done returns: the task as read, or its own failed record
WaitResult(t) ==
  IF t.status \in Terminal
    THEN [status |-> t.status, error_message |-> t.error_message]
    ELSE [status |-> "failed", error_message |-> <<"Timeout waiting result">>]

\* one iteration of the loop of wait_task_done
WaitPoll ==
  /\ wait.pc = "waiting"
  /\ LET t == tasks[wait.task] IN
       IF WaitReturn(t, wait.elapsed)
         THEN wait' = [wait EXCEPT !.pc = "done",
                                   !.status = WaitResult(t).status,
                                   !.error_message = WaitResult(t).error_message]
         ELSE wait' = [wait EXCEPT !.elapsed = @ + 1]
  /\ UNCHANGED <<tasks, store, wpc, cur, loc, http, clock, obs, subs, w2, env, call, registry>>

FrontEnd ==
  \/ WaitStart
  \/ WaitPoll

NextWait ==
  \/ Next
  \/ FrontEnd

WaitEnv == [LoopEnv EXCEPT !.max_tasks = MaxWaitTasks]

InitWait ==
  /\ Start
  /\ env = WaitEnv

WaitSpec == InitWait /\ [][NextWait]_vars

NextCrash ==
  \/ Next
  \/ Crash

CrashSpec == InitLoop /\ [][NextCrash]_vars

(***************************************************************************)
(* Properties.                                                              *)
(***************************************************************************)
Contains(msg, token) == \E i \in 1..Len(msg) : msg[i] = token

TaskIds == 1..Len(tasks)

\* C1: the only status changes of a task are queued->processing,
\* processing->success and processing->failed, and a task starts queued.
C1_StatusSequence ==
  [][ /\ \A i \in TaskIds :
           tasks'[i].status # tasks[i].status =>
             <<tasks[i].status, tasks'[i].status>> \in
               { <<"queued", "processing">>, <<"processing", "success">>,
                 <<"processing", "failed">> }
      /\ \A i \in (1..Len(tasks')) \ TaskIds : tasks'[i].status = "queued" ]_vars

\* C2: a task whose status is success or failed is never claimed by the
\* worker loop again and no field of its record changes any more.
C2_TerminalImmutable ==
  [][ /\ \A i \in TaskIds : tasks[i].status \in Terminal => tasks'[i] = tasks[i]
      /\ (wpc = "select" /\ wpc' = "load" => tasks[cur'].status \notin Terminal) ]_vars

C2_Witness ==
  /\ Len(tasks) = 2
  /\ tasks[1].status = "failed"
  /\ cur = 2
  /\ wpc = "mark_success"

\* C3: no failure raised while a task is executed leaves execute_task: the
\* worker loop never ends with a propagated exception.
C3_NoFailurePropagates == wpc # "propagated"

\* C4: when a step of execute_task fails, the except block leaves the task
\* failed with the text of the raised failure as error_message and with
\* result_file_key and result_text as they were.
C4_FailureRecorded ==
  [][ wpc = "except" /\ wpc' # "except" =>
        /\ tasks'[cur].status = "failed"
        /\ tasks'[cur].error_message = loc.exc
        /\ loc.exc # NoError
        /\ tasks'[cur].result_file_key = tasks[cur].result_file_key
        /\ tasks'[cur].result_text = tasks[cur].result_text
        /\ \A i \in TaskIds \ {cur} : tasks'[i] = tasks[i] ]_vars

C4_Witness ==
  /\ cur # 0
  /\ wpc = "select"
  /\ tasks[cur].status = "failed"
  /\ tasks[cur].error_message = <<"HTTPStatusError ", "404">>
  /\ tasks[cur].result_file_key = None

\* C5: with a worker that keeps running, every queued task eventually
\* reaches success or failed.
C5_QueuedEventuallyTerminal ==
  \A i \in 1..MaxLoopTasks :
    (i \in TaskIds /\ tasks[i].status = "queued")
      ~> (i \in TaskIds /\ tasks[i].status \in Terminal)

C5_Witness ==
  /\ Len(tasks) = 2
  /\ tasks[1].status \in Terminal
  /\ tasks[2].status = "success"
  /\ tasks[2].result_file_key # None

PollEnded == wpc = "after_poll" \/ (wpc = "except" /\ obs.how = "poll_raise")

\* C6: when the poll deadline has elapsed, no terminal status was observed
\* and no fatal HTTP status was returned, poll returns the synthetic failed
\* result (empty payload, timeout text) and does not raise.
C6_DeadlineGivesTimeoutResult ==
  ( /\ PollEnded
    /\ clock > PollTimeoutTicks
    /\ ~(wpc = "after_poll" /\ loc.result.payload # EmptyPayload)
    /\ ~(obs.act = "return" /\ obs.code >= 400) )
  => (wpc = "after_poll" /\ loc.result = TimeoutResult)

\* C7: poll returns only on an observed success/failed status or on the
\* deadline; after N non-terminal answers and one success it has made N + 1
\* successful status fetches and returns that last response as the payload.
C7_PollReturn ==
  wpc = "after_poll" =>
    \/ /\ loc.result.status \in {"success", "failed"}
       /\ loc.result.status = obs.body.status
       /\ loc.result.payload = obs.body
       /\ obs.fetched = obs.waiting + 1
    \/ /\ loc.result = TimeoutResult
       /\ clock > PollTimeoutTicks

C7_Witness ==
  /\ wpc = "after_poll"
  /\ loc.result.status = "success"
  /\ obs.waiting = PollTimeoutTicks
  /\ obs.fetched = PollTimeoutTicks + 1

\* the run fails on the result that poll made up at its deadline
FailsOnPollTimeout ==
  /\ wpc = "except"
  /\ loc.result = TimeoutResult
  /\ wpc' = "select"

\* C8: a task failed by the local poll deadline has the timeout message in
\* its error_message.
C8_TimeoutMessageStored ==
  [][ FailsOnPollTimeout =>
        /\ tasks'[cur].status = "failed"
        /\ Contains(tasks'[cur].error_message, TimeoutText) ]_vars

\* C9: a submit answered by k <= max_submit_retries retryable failures and
\* then by 200 with a request id returns that id after k + 1 attempts with no
\* error on the task; a retryable failure is surfaced only after
\* max_submit_retries + 1 failed attempts.
C9_SubmitRetrySuccess ==
  /\ (wpc = "poll" /\ obs.how = "submit_return") =>
       /\ obs.rid # 0
       /\ loc.request_id = obs.rid
       /\ obs.sent = obs.fails + 1
       /\ obs.fails <= max_submit_retries
       /\ tasks[cur].status = "processing"
       /\ tasks[cur].error_message = NoError
  /\ (wpc = "except" /\ obs.how = "submit_raise"
        /\ obs.code \in {0, 419, 500, 502, 503, 504}) =>
       obs.fails = max_submit_retries + 1

C9_Witness ==
  /\ wpc = "poll"
  /\ obs.how = "submit_return"
  /\ obs.fails = max_submit_retries
  /\ obs.sent = max_submit_retries + 1
  /\ loc.request_id = RequestIdOf(cur)

InSubmit == obs.how \in {"none", "submit_return", "submit_raise"}

MaxRetriesHere == IF InSubmit THEN max_submit_retries ELSE max_poll_retries

CallFailed == wpc = "except" /\ obs.how \in {"submit_raise", "poll_raise"}

Classified == obs.act \in {"retry", "return", "raise"} /\ obs.code # 0

EndedOnRetryable ==
  /\ CallFailed
  /\ obs.sent > 0
  /\ (obs.code = 0 \/ obs.code \in {419, 500, 502, 503, 504})

\* C11: one retried HTTP call makes at most max_retries + 1 attempts, and a
\* retryable condition fails the task only when all max_retries + 1 attempts
\* of that call have failed.
C11_FailsOnlyWhenExhausted ==
  /\ obs.sent <= MaxRetriesHere + 1
  /\ (EndedOnRetryable => obs.fails = MaxRetriesHere + 1)

\* msg ends with the tokens of part
EndsWith(msg, part) ==
  /\ Len(msg) >= Len(part)
  /\ SubSeq(msg, Len(msg) - Len(part) + 1, Len(msg)) = part

\* poll has returned a result whose status is not success
PollGaveFailure == loc.result.status \notin {None, "success"}

\* C12: when poll returns a result whose status is not success, the executor
\* goes straight to its failure handling: no further submit or poll, no
\* download, no artifact write, and the task ends failed with an
\* error_message that contains the raw provider payload.
C12_ProviderFailureIsFinal ==
  [][ /\ (wpc = "after_poll" /\ PollGaveFailure /\ wpc' # wpc) =>
           /\ wpc' = "except"
           /\ store' = store
           /\ subs' = subs
           /\ tasks' = tasks
      /\ (wpc = "except" /\ PollGaveFailure /\ wpc' # wpc) =>
           /\ wpc' = "select"
           /\ store' = store
           /\ subs' = subs
           /\ tasks'[cur].status = "failed"
           /\ tasks'[cur].result_file_key = None
           /\ EndsWith(tasks'[cur].error_message, PayloadRepr(loc.result.payload)) ]_vars

C12_Witness ==
  /\ cur # 0
  /\ wpc = "select"
  /\ tasks[cur].status = "failed"
  /\ tasks[cur].error_message = <<"GenAPI failed: ", "{'status': ", "failed", "", "}">>
  /\ subs = <<cur>>

\* the worker is inside execute_task for task cur
Running == cur # 0 /\ wpc \notin {"select", "sleep"}

\* the task's preset is a registered preset that requires input files
NeedsInput(t) ==
  /\ NormSlug(t.preset_slug) \in DOMAIN PRESETS
  /\ PRESETS[NormSlug(t.preset_slug)].input_kind # "none"

\* number of input file references the task carries
RefCount(t) == Len(InputFileIds(t, ParseTextAndMeta(t.input_text)))

OverLimit(t) == NeedsInput(t) /\ RefCount(t) > MAX_INPUT_FILES

TooManyMsg == <<"Too many files: max ", ToString(MAX_INPUT_FILES)>>

\* C13: a task of a preset that requires input and carries more file
\* references than MAX_INPUT_FILES fails on the count check: up to and at the
\* moment of failure no file was fetched, nothing was written to the store
\* and nothing was submitted to the provider, and the task ends failed.
C13_TooManyFilesBeforeAnyCall ==
  /\ (Running /\ OverLimit(tasks[cur])) =>
       /\ wpc \in {"load", "mark_processing", "prepare", "except"}
       /\ ~obs.tg /\ ~obs.wrote /\ ~obs.posted
       /\ \A k \in 1..Len(subs) : subs[k] # cur
       /\ (wpc = "except" => loc.exc = TooManyMsg)
  /\ \A i \in TaskIds : OverLimit(tasks[i]) =>
       /\ tasks[i].status # "success"
       /\ (tasks[i].status = "failed" => tasks[i].error_message = TooManyMsg)

C13_Witness ==
  /\ cur # 0
  /\ wpc = "select"
  /\ RefCount(tasks[cur]) = MAX_INPUT_FILES + 1
  /\ tasks[cur].status = "failed"
  /\ tasks[cur].error_message = TooManyMsg
  /\ store = {}
  /\ subs = <<>>

UnknownPreset(t) == NormSlug(t.preset_slug) \notin DOMAIN PRESETS

MissingInputFile(t) == NeedsInput(t) /\ RefCount(t) = 0

\* the prompt fields the suno and grok presets require are not all there
MissingPromptFields(t) ==
  LET slug   == NormSlug(t.preset_slug)
      parsed == ParseTextAndMeta(t.input_text)
      has(k) == k \in DOMAIN parsed.meta /\ parsed.meta[k] # ""
  IN  \/ slug = "grok" /\ parsed.prompt = ""
      \/ slug = "suno" /\ ( \/ ~has("title")
                            \/ ~has("tags")
                            \/ (~has("prompt") /\ parsed.prompt = "") )

InvalidTask(t) == UnknownPreset(t) \/ MissingInputFile(t) \/ MissingPromptFields(t)

Submitted(i) == \E k \in 1..Len(subs) : subs[k] = i

\* C14: a task with an unknown preset, a missing required input file, an
\* oversized input file or missing required prompt fields ends failed
\* without any provider submit, and is not run again.
C14_InvalidInputFailsUnsubmitted ==
  [][ /\ (Running /\ InvalidTask(tasks[cur])) =>
           /\ wpc \in {"load", "mark_processing", "prepare", "except"}
           /\ ~obs.posted
      /\ (Running /\ obs.size > MAX_INPUT_FILE_SIZE_MB) =>
           /\ wpc = "except"
           /\ ~obs.posted
           /\ ~Submitted(cur)
      /\ \A i \in TaskIds : InvalidTask(tasks[i]) =>
           /\ tasks[i].status # "success"
           /\ ~Submitted(i)
      /\ (wpc = "except" /\ wpc' # wpc /\ ~obs.posted) =>
           /\ wpc' = "select"
           /\ tasks'[cur].status = "failed"
           /\ subs' = subs
      /\ (wpc = "select" /\ wpc' = "load") => tasks[cur'].status = "queued" ]_vars

C14_Witness ==
  /\ cur # 0
  /\ wpc = "except"
  /\ obs.size > MAX_INPUT_FILE_SIZE_MB
  /\ loc.idx = 2
  /\ obs.wrote
  /\ ~obs.posted

\* C15: the task the worker loop hands to the executor is, at the claim, the
\* queued task with the smallest id, and the loop sleeps only in an iteration
\* that found no queued task.
C15_ClaimsOldestQueued ==
  [][ /\ (wpc = "select" /\ wpc' = "load") =>
           /\ cur' \in TaskIds
           /\ tasks[cur'].status = "queued"
           /\ \A j \in TaskIds : tasks[j].status = "queued" => cur' <= j
      /\ (wpc # "sleep" /\ wpc' = "sleep") =>
           /\ wpc = "select"
           /\ \A j \in TaskIds : tasks[j].status # "queued"
      /\ (wpc = "select" /\ wpc' # wpc) => wpc' \in {"load", "sleep"} ]_vars

C15_Witness ==
  /\ Len(tasks) = 2
  /\ wpc = "load"
  /\ cur = 1
  /\ tasks[1].status = "queued"
  /\ tasks[2].status = "queued"

ProcessingIds == {i \in TaskIds : tasks[i].status = "processing"}

\* at most one task is processing, and it is the one the worker is executing
OneProcessing ==
  /\ Cardinality(ProcessingIds) <= 1
  /\ \A i \in ProcessingIds : Running /\ cur = i

\* C16: with a single worker that does not crash, at most one task has
\* status processing, and the worker claims a task only when the task it
\* executed before has reached success or failed.
C16_OneTaskAtATime ==
  [][ /\ OneProcessing
      /\ OneProcessing'
      /\ (wpc = "select" /\ wpc' = "load") =>
           /\ ProcessingIds = {}
           /\ (cur # 0 => tasks[cur].status \in Terminal) ]_vars

C16_Witness ==
  /\ Len(tasks) = 2
  /\ tasks[1].status = "success"
  /\ tasks[2].status = "processing"
  /\ cur = 2
  /\ wpc = "poll_req"

\* task i is processing and no running worker is executing it
Orphaned(i) == tasks[i].status = "processing" /\ ~(Running /\ cur = i)

\* C17: a task left processing by a crash of the worker stays processing
\* after the restart: the loop never claims it and no step changes its record.
C17_CrashedTaskStaysProcessing ==
  [][ \A i \in TaskIds : Orphaned(i) =>
        /\ tasks'[i] = tasks[i]
        /\ ~(wpc' \notin {"select", "sleep"} /\ cur' = i) ]_vars

C17_Witness ==
  /\ Len(tasks) = 2
  /\ tasks[1].status = "processing"
  /\ tasks[2].status = "success"
  /\ wpc = "sleep"

\* i is the queued task with the smallest id
IsOldestQueued(i) ==
  /\ i \in TaskIds
  /\ tasks[i].status = "queued"
  /\ \A j \in TaskIds : tasks[j].status = "queued" => i <= j

\* C18: with two workers, the claim of either worker is a read of the oldest
\* queued task, whatever the other worker holds, followed by a separate
\* update to processing that is made whatever the task's status has become;
\* hence both can claim and execute the same task (see the witness).
C18_ClaimIsReadThenUpdate ==
  [][ /\ (wpc = "select" /\ wpc' = "load") => IsOldestQueued(cur')
      /\ (w2.pc = "select" /\ w2'.pc = "load") => IsOldestQueued(w2'.cur)
      /\ (wpc = "mark_processing" /\ wpc' # wpc) =>
           tasks'[cur].status = "processing"
      /\ (w2.pc = "mark_processing" /\ w2'.pc # w2.pc) =>
           tasks'[w2.cur].status = "processing" ]_vars

\* both workers have claimed the same task, both execute it, and the
\* provider has accepted two submissions for it
C18_Witness ==
  /\ cur # 0
  /\ w2.cur = cur
  /\ wpc = "poll"
  /\ w2.pc = "poll"
  /\ tasks[cur].status = "processing"
  /\ Len(subs) = 2
  /\ subs[1] = cur
  /\ subs[2] = cur

\* the keys the executor itself sets for a preset
ExecutorKeys(preset) ==
  (CASE preset.slug = "suno" -> {"title", "tags", "prompt", "model", "translate_input"}
     [] preset.slug = "grok" -> {"messages", "model", "stream"}
     [] preset.slug \in {"img_nb_std_create", "img_nb_std_edit"} ->
          {"prompt", "translate_input"}
     [] OTHER -> {})
  \cup {"translate_input"}
  \cup (IF preset.input_kind # "none" THEN {preset.input_field} ELSE {})

AllowList ==
  {"aspect_ratio", "image_size", "quality", "resolution", "num_images",
   "output_format", "translate_input", "tg_file_ids"}

\* C19: every parameter key sent to the provider is a key of the preset's
\* default parameters, a key the executor sets for that preset, or a metadata
\* key on the allow-list; a metadata key outside the allow-list is not sent
\* on behalf of the metadata.
C19_OnlyAllowListedMetaKeys ==
  (Running /\ obs.posted /\ wpc \in {"submit", "poll", "except"}) =>
    LET preset == PRESETS[NormSlug(tasks[cur].preset_slug)]
        meta   == ParseTextAndMeta(tasks[cur].input_text).meta
        own    == preset.params \cup ExecutorKeys(preset)
    IN  /\ \A k \in obs.payload : k \in own \/ (k \in DOMAIN meta /\ k \in AllowList)
        /\ \A k \in DOMAIN meta : (k \notin AllowList /\ k \notin own) => k \notin obs.payload

C19_Witness ==
  /\ Running
  /\ wpc = "poll"
  /\ "webhook_url" \in DOMAIN ParseTextAndMeta(tasks[cur].input_text).meta
  /\ "aspect_ratio" \in obs.payload
  /\ "tg_file_ids" \in obs.payload
  /\ "image_urls" \in obs.payload
  /\ "webhook_url" \notin obs.payload

AudioExts == {".mp3", ".wav"}

IsSuno(t) == NormSlug(t.preset_slug) = "suno"

\* C20: for the suno preset the URL chosen as the result, downloaded and
\* stored, has an audio extension, or no URL is stored.
C20_SunoResultIsAudio ==
  /\ (Running /\ IsSuno(tasks[cur]) /\ wpc \in {"download", "mark_success"}) =>
       (loc.file_url = None \/ UrlExt(loc.file_url) \in AudioExts)
  /\ \A i \in TaskIds : (IsSuno(tasks[i]) /\ tasks[i].status = "success") =>
       \/ tasks[i].result_file_key = None
       \/ \E e \in AudioExts : tasks[i].result_file_key = ResultKey(i, "suno", e)

(***************************************************************************)
(* The helper functions of the client and of the executor called on their   *)
(* own, on arguments drawn from bounded sets.                               *)
(***************************************************************************)
MaxUrls == 2

\* the URL lists _collect_urls can hand over: no URL twice
UrlLists ==
  { s \in UNION { [1..n -> Urls] : n \in 0..MaxUrls } :
      \A i, j \in 1..Len(s) : i # j => s[i] # s[j] }

\* a call is made when no call is under way
Called(op, arg, out) ==
  /\ call.op = "none"
  /\ call' = [op |-> op, arg |-> arg, out |-> out]
  /\ UNCHANGED <<tasks, store, wpc, cur, loc, http, clock, obs, subs, w2, env, registry, wait>>

\* the caller has read the result
CallReturn ==
  /\ call.op # "none"
  /\ call' = NoCall
  /\ UNCHANGED <<tasks, store, wpc, cur, loc, http, clock, obs, subs, w2, env, registry, wait>>

CallClientPick ==
  /\ call.op = "none"
  /\ \E urls \in UrlLists : Called("client_pick", urls, PickBestUrl(urls))


CallExecutorPick ==
  /\ call.op = "none"
  /\ \E urls \in UrlLists : Called("executor_pick", urls, ExecutorPickBestUrl(urls))


(***************************************************************************)
(* C21                                                                      *)
(***************************************************************************)
ExtClass(u) ==
  CASE UrlParts(u) \cap {".mp3", ".wav"} # {} -> "audio"
    [] UrlParts(u) \cap {".mp4", ".mov", ".webm"} # {} -> "video"
    [] UrlParts(u) \cap {".png", ".jpg", ".jpeg", ".webp", ".gif"} # {} -> "image"
    [] UrlParts(u) \cap {".zip"} # {} -> "archive"
    [] UrlParts(u) \cap {".json", ".txt"} # {} -> "text"
    [] OTHER -> "other"

Marked(u) == UrlParts(u) \cap {"/input_files/", "/uploads/", "cover"} # {}

PickCalled == call.op \in {"client_pick", "executor_pick"} /\ call.arg # <<>>

\* C21: among the candidates of one extension class (audio, video, image,
\* archive, text/json), neither URL picker returns a URL whose path holds an
\* input/preview marker (input_files, uploads, cover) when the list holds a
\* candidate of that class without one.
C21_MarkedUrlNeverPreferred ==
  PickCalled =>
    ~ /\ Marked(call.out)
      /\ \E i \in 1..Len(call.arg) :
           /\ ExtClass(call.arg[i]) = ExtClass(call.out)
           /\ ~Marked(call.arg[i])

(***************************************************************************)
(* C22                                                                      *)
(***************************************************************************)
\* the provider payload holds no URL and no text
EmptyOutput(result) == result.payload.urls = <<>> /\ result.payload.text = ""

\* every key an artifact of task i can be stored under
ResultKeys(i) ==
  { ResultKey(i, PRESETS[NormSlug(tasks[i].preset_slug)].slug, e) :
      e \in {KeyExts[k] : k \in 1..Len(KeyExts)} \cup {".bin"} }

\* C22: a provider result with status success whose payload yields neither
\* a URL nor text goes on to the success update: the task ends success with
\* no artifact key, and no artifact of the task is in the store.
C22_EmptySuccessStillSucceeds ==
  [][ /\ ( /\ wpc = "after_poll"
           /\ loc.result.status = "success"
           /\ EmptyOutput(loc.result)
           /\ wpc' # wpc ) =>
             /\ wpc' = "mark_success"
             /\ loc'.key = None
             /\ store' = store
      /\ ( /\ wpc = "mark_success"
           /\ EmptyOutput(loc.result)
           /\ wpc' # wpc ) =>
             /\ tasks'[cur].status = "success"
             /\ tasks'[cur].result_file_key = None
             /\ store' = store
             /\ store \cap ResultKeys(cur) = {} ]_vars

C22_Witness ==
  \E i \in TaskIds :
    /\ tasks[i].status = "success"
    /\ tasks[i].result_file_key = None
    /\ tasks[i].result_text = DefaultText
    /\ store \cap ResultKeys(i) = {}

(***************************************************************************)
(* C23                                                                      *)
(***************************************************************************)
\* C23: a task with status success and an artifact key has its artifact in
\* the store under exactly that key, the key is results/task_{id}_{preset}{ext}
\* for the task's id and preset slug and an extension of the URL, and at the
\* success update the artifact is already written.
C23_ArtifactStoredUnderKey ==
  [][ /\ \A i \in TaskIds :
           (tasks[i].status = "success" /\ tasks[i].result_file_key # None) =>
             /\ tasks[i].result_file_key \in store
             /\ tasks[i].result_file_key \in ResultKeys(i)
      /\ ( /\ wpc = "mark_success"
           /\ wpc' # wpc
           /\ loc.file_url # None ) =>
             /\ loc.key \in store
             /\ loc.key \in ResultKeys(cur)
             /\ tasks'[cur].status = "success"
             /\ tasks'[cur].result_file_key = loc.key
             /\ store' = store ]_vars

C23_Witness ==
  \E i \in TaskIds :
    /\ tasks[i].status = "success"
    /\ tasks[i].result_file_key = "results/task_1_grok.png"
    /\ tasks[i].result_file_key \in store

(***************************************************************************)
(* C24                                                                      *)
(***************************************************************************)
DlCode == obs.dl[1]

DlAct == obs.dl[2]

DlNow == obs.dl[3]

DeadlineMsg == "Download failed by deadline: "

\* what the download does with an answer, given the answers that count as
\* retryable failures
DownloadRule(retryable) ==
  /\ (DlAct # "none" /\ DlCode \in retryable /\ DlNow <= DownloadTimeoutTicks) =>
       DlAct = "retry" /\ wpc = "download" /\ clock > DlNow
  /\ (DlAct # "none" /\ DlCode \in retryable /\ DlNow > DownloadTimeoutTicks) =>
       DlAct = "deadline" /\ wpc = "except" /\ loc.exc[1] = DeadlineMsg
  /\ (DlAct # "none" /\ DlCode >= 400 /\ DlCode \notin retryable) =>
       DlAct = "fatal" /\ wpc = "except" /\ loc.exc[1] # DeadlineMsg
  /\ (DlAct \in {"deadline", "fatal"} /\ wpc' # wpc) =>
       /\ tasks'[cur].status = "failed"
       /\ tasks'[cur].error_message = loc.exc
       /\ store' = store

\* C24 as stated: a timeout or connection error (code 0), the rate-limit
\* status and every 5xx status are retried until the first such answer after
\* the download deadline, which fails the task with the deadline message;
\* any other HTTP error ends the download at once.
C24_Any5xxDownloadRetried ==
  [][DownloadRule({0, 429} \cup 500..599)]_vars

\* C24 as amended: a timeout or connection error and the statuses 429, 500,
\* 502, 503 and 504 are retried after a sleep while the deadline has not
\* passed; the first of them observed after the deadline fails the task with
\* the message "Download failed by deadline"; every other status >= 400 (501
\* included) ends the download at once with the HTTP error.
C24_ListedDownloadFailuresRetried ==
  [][DownloadRule({0, 429, 500, 502, 503, 504})]_vars

C24_Witness ==
  /\ wpc = "except"
  /\ DlAct = "deadline"
  /\ DlCode = 503
  /\ DlNow > DownloadTimeoutTicks
  /\ loc.exc[1] = DeadlineMsg

(***************************************************************************)
(* The task input text as text: a sequence of tokens, each a piece of the   *)
(* string ("\n" is a line feed, "\\n" the two characters of its JSON         *)
(* escape).  No token but "---" holds a dash and no token but "\n" a line   *)
(* feed, so the delimiter occurs in the text exactly where its three tokens *)
(* follow each other.                                                       *)
(***************************************************************************)
MaxPromptLen == 3

SEP == <<"\n", "---", "\n">>

PromptTokens == {"a", " ", "\n", "---"}

Prompts == UNION { [1..n -> PromptTokens] : n \in 0..MaxPromptLen }

\* the metadata objects: strings are token sequences
Metas ==
  { NoMeta, [title |-> <<"a">>], [title |-> <<"a", "\n", "---", "\n", "a">>] }

IsSpace(c) == c \in {" ", "\n"}

\* str.lstrip / str.rstrip / str.strip
LStrip(s) ==
  IF \A i \in 1..Len(s) : IsSpace(s[i]) THEN <<>>
  ELSE SubSeq(s, CHOOSE i \in 1..Len(s) :
                   ~IsSpace(s[i]) /\ \A j \in 1..(i - 1) : IsSpace(s[j]), Len(s))

RStrip(s) ==
  IF \A i \in 1..Len(s) : IsSpace(s[i]) THEN <<>>
  ELSE SubSeq(s, 1, CHOOSE i \in 1..Len(s) :
                      ~IsSpace(s[i]) /\ \A j \in (i + 1)..Len(s) : IsSpace(s[j]))

Strip(s) == RStrip(LStrip(s))

\* the positions at which part occurs in s
Occurrences(s, part) ==
  { i \in 1..(Len(s) - Len(part) + 1) : SubSeq(s, i, i + Len(part) - 1) = part }

\* json.dumps of a string: a line feed is written as its escape
JsonEscape(v) == [i \in 1..Len(v) |-> IF v[i] = "\n" THEN "\\n" ELSE v[i]]

JsonUnescape(v) == [i \in 1..Len(v) |-> IF v[i] = "\\n" THEN "\n" ELSE v[i]]

\* json.dumps(meta or {}, ensure_ascii=False) on the sampled objects
JsonDumps(meta) ==
  IF DOMAIN meta = {} THEN <<"{", "}">>
  ELSE <<"{", "\"title\"", ":", " ", "\"">> \o JsonEscape(meta.title) \o <<"\"", "}">>

\* json.loads on the sampled texts: an object of the sampled grammar, a JSON
\* value that is not an object (a list, a number, null, a string), or no
\* JSON at all, for which json.loads raises
JsonValue(s) ==
  IF s = <<"{", "}">> THEN [t |-> "dict", v |-> NoMeta]
  ELSE IF /\ Len(s) >= 7
          /\ SubSeq(s, 1, 5) = <<"{", "\"title\"", ":", " ", "\"">>
          /\ SubSeq(s, Len(s) - 1, Len(s)) = <<"\"", "}">>
          /\ \A i \in 6..(Len(s) - 2) : s[i] \notin {"\n", "\"", "{", "}"}
    THEN [t |-> "dict", v |-> [title |-> JsonUnescape(SubSeq(s, 6, Len(s) - 2))]]
  ELSE IF s = <<"[", "]">> THEN [t |-> "other", v |-> [t |-> "list", v |-> <<>>]]
  ELSE IF s = <<"42">> THEN [t |-> "other", v |-> [t |-> "num", v |-> 42]]
  ELSE IF s = <<"null">> THEN [t |-> "other", v |-> [t |-> "none", v |-> None]]
  ELSE IF s = <<"\"", "a", "\"">> THEN [t |-> "other", v |-> [t |-> "str", v |-> "a"]]
  ELSE [t |-> "error", v |-> None]

JsonLoads_AnyValue(s) ==
  IF JsonValue(s).t = "error" THEN NoMeta ELSE JsonValue(s).v

\* meta = json.loads(...); if not isinstance(meta, dict): meta = {}; except
\* Exception: meta = {}
JsonLoads(s) ==
  IF JsonValue(s).t = "dict" THEN JsonValue(s).v ELSE NoMeta

\* _meta_to_input_text
MetaToInputText(prompt, meta) == Strip(prompt) \o SEP \o JsonDumps(meta)

\* _parse_text_and_meta on the text
DecodeInputText(raw) ==
  IF raw = <<>> THEN [prompt |-> <<>>, meta |-> NoMeta]
  ELSE IF Occurrences(raw, SEP) = {} THEN [prompt |-> Strip(raw), meta |-> NoMeta]
  ELSE LET i == CHOOSE k \in Occurrences(raw, SEP) : \A j \in Occurrences(raw, SEP) : k <= j
       IN  [prompt |-> Strip(SubSeq(raw, 1, i - 1)),
            meta |-> JsonLoads(Strip(SubSeq(raw, i + Len(SEP), Len(raw))))]

CallDecodeEncoded ==
  /\ call.op = "none"
  /\ \E p \in Prompts, m \in Metas :
       Called("decode_encoded", <<p, m>>, DecodeInputText(MetaToInputText(p, m)))


(***************************************************************************)
(* C25                                                                      *)
(***************************************************************************)
\* C25: for every prompt that does not contain the delimiter and every
\* metadata object, decoding the front-end's encoding of (prompt, metadata)
\* returns the trimmed prompt and the metadata object.
C25_DecodeInvertsEncode ==
  (call.op = "decode_encoded" /\ Occurrences(call.arg[1], SEP) = {}) =>
    call.out = [prompt |-> Strip(call.arg[1]), meta |-> call.arg[2]]


(***************************************************************************)
(* The provider payload as a JSON tree: a value is a string, a list, an     *)
(* object (its keys in the order of the document) or none of these.         *)
(***************************************************************************)
MaxKeys == 3

Str(s) == [t |-> "str", v |-> s]

List(xs) == [t |-> "list", v |-> xs]

Dict(ps) == [t |-> "dict", v |-> ps]

NoneVal == [t |-> "none", v |-> None]

\* str.strip(), str.lower(), str.isalpha() and the URL test on the sampled
\* strings
StrStrip(s) ==
  CASE s = " hi there " -> "hi there"
    [] s = "  " -> ""
    [] s = " stop " -> "stop"
    [] OTHER -> s

StrLower(s) ==
  CASE s = "Queued" -> "queued"
    [] OTHER -> s

IsAlpha(s) == s \in {"hello", "stop", "success", "Queued", "queued", "ok", "abcd"}

IsUrl(s) == s \in Urls

\* d.get(k)
Get(d, k) ==
  IF \E i \in 1..Len(d.v) : d.v[i][1] = k
    THEN d.v[CHOOSE i \in 1..Len(d.v) : d.v[i][1] = k][2]
    ELSE NoneVal

\* _is_meaningful_text
bad ==
  {"stop", "assistant", "user", "chat.completion", "completed", "success",
   "failed", "queued", "processing"}

IsMeaningfulText_AnyNonEmpty(s) == StrStrip(s) # ""

IsMeaningfulText(s) ==
  LET t == StrStrip(s) IN
  /\ t # ""
  /\ StrLower(t) \notin bad
  /\ ~(Len(t) <= 4 /\ IsAlpha(t))

\* _collect_urls: every URL string of the tree, depth first, in document
\* order, each once
RECURSIVE UrlsOf(_), UrlsOfAll(_)

UrlsOf(x) ==
  CASE x.t = "str" -> IF IsUrl(x.v) THEN <<x.v>> ELSE <<>>
    [] x.t = "dict" -> UrlsOfAll([i \in 1..Len(x.v) |-> x.v[i][2]])
    [] x.t = "list" -> UrlsOfAll(x.v)
    [] OTHER -> <<>>

UrlsOfAll(xs) == IF xs = <<>> THEN <<>> ELSE UrlsOf(Head(xs)) \o UrlsOfAll(Tail(xs))

RECURSIVE KeepFirst(_)

KeepFirst(urls) ==
  IF urls = <<>> THEN <<>>
  ELSE LET init == KeepFirst(SubSeq(urls, 1, Len(urls) - 1))
           last == urls[Len(urls)]
       IN  IF \E i \in 1..Len(init) : init[i] = last THEN init ELSE Append(init, last)

CollectUrls(x) == KeepFirst(UrlsOf(x))

\* the keys _find_text_deep looks at first in an object
DeepKeys == <<"content", "text", "output_text", "message">>

\* the first key of the list whose value is a meaningful string, else 0
FirstTextKey(d, keys) ==
  LET hit(i) == Get(d, keys[i]).t = "str" /\ IsMeaningfulText(Get(d, keys[i]).v) IN
  IF \E i \in 1..Len(keys) : hit(i)
    THEN CHOOSE i \in 1..Len(keys) : hit(i) /\ \A j \in 1..(i - 1) : ~hit(j)
    ELSE 0

\* _find_text_deep
RECURSIVE FindTextDeep(_), FindTextIn(_)

FindTextDeep(x) ==
  CASE x.t = "dict" ->
         LET k == FirstTextKey(x, DeepKeys) IN
         IF k # 0 THEN StrStrip(Get(x, DeepKeys[k]).v)
         ELSE FindTextIn([i \in 1..Len(x.v) |-> x.v[i][2]])
    [] x.t = "list" -> FindTextIn(x.v)
    [] x.t = "str" ->
         IF IsUrl(x.v) THEN None
         ELSE IF IsMeaningfulText(x.v) THEN StrStrip(x.v) ELSE None
    [] OTHER -> None

FindTextIn(xs) ==
  IF xs = <<>> THEN None
  ELSE LET t == FindTextDeep(Head(xs)) IN
       IF t # None THEN t ELSE FindTextIn(Tail(xs))

\* choices[0].message.content when it is a string that is not blank
ChatContent(payload) ==
  LET ch == Get(payload, "choices")
      m  == IF ch.t = "list" /\ ch.v # <<>> /\ ch.v[1].t = "dict"
              THEN Get(ch.v[1], "message") ELSE NoneVal
      c  == IF m.t = "dict" THEN Get(m, "content") ELSE NoneVal
  IN  IF c.t = "str" /\ StrStrip(c.v) # "" THEN StrStrip(c.v) ELSE None

FlatKeys == <<"text", "output_text", "content", "message">>

ExtractText_DeepFirst(payload) == FindTextDeep(payload)

\* the text of _extract_best_output
ExtractText(payload) ==
  LET k == FirstTextKey(payload, FlatKeys) IN
  IF ChatContent(payload) # None THEN ChatContent(payload)
  ELSE IF k # 0 THEN StrStrip(Get(payload, FlatKeys[k]).v)
  ELSE FindTextDeep(payload)

\* _extract_best_output on the tree
ExtractBestOutputOf(payload) ==
  [file_url |-> PickBestUrl(CollectUrls(payload)), text |-> ExtractText(payload)]

\* the sampled members of a payload
Chat(content) ==
  <<"choices", List(<<Dict(<< <<"finish_reason", Str("stop")>>,
                              <<"message", Dict(<< <<"role", Str("assistant")>>,
                                                  <<"content", Str(content)>> >>)>> >>)>>)>>

Members ==
  { Chat("hello"), Chat("  "),
    <<"output", Str("https://x/a.png")>>,
    <<"model", Str("grok-3")>>,
    <<"status", Str("success")>>,
    <<"text", Str(" stop ")>>,
    <<"text", Str(" hi there ")>>,
    <<"text", Str("https://x/a.png")>>,
    <<"content", Str("ok")>>,
    <<"message", Str("hello")>>,
    <<"result", List(<<Str(""), Str("Queued"), Str("abcd"), Str("42")>>)>>,
    <<"data", Dict(<< <<"id", Str("ok")>>, <<"text", Str("hi there")>> >>)>> }

\* the payloads: up to MaxKeys members, no key twice, in every order
Payloads ==
  { Dict(ps) : ps \in
      { s \in UNION { [1..n -> Members] : n \in 0..MaxKeys } :
          \A i, j \in 1..Len(s) : i # j => s[i][1] # s[j][1] } }

CallExtract ==
  /\ call.op = "none"
  /\ \E payload \in Payloads : Called("extract", payload, ExtractBestOutputOf(payload))


(***************************************************************************)
(* C26                                                                      *)
(***************************************************************************)

\* a payload with the chat-completion content "hello" and the one URL
\* https://x/a.png under another key
ChatWithOneUrl(payload) ==
  /\ ChatContent(payload) = "hello"
  /\ \E i \in 1..Len(payload.v) :
       /\ payload.v[i][1] # "choices"
       /\ payload.v[i][2].t = "str"
       /\ payload.v[i][2].v = "https://x/a.png"

\* C26: for a payload with the chat-completion content "hello" and the one
\* URL https://x/a.png under another key, the extractor returns the text
\* "hello" and that URL whatever the order of the payload's keys (every
\* order of the keys is a payload of its own here), and a second run on the
\* same payload returns the same pair.
C26_ExtractionIgnoresKeyOrder ==
  (call.op = "extract" /\ ChatWithOneUrl(call.arg)) =>
    /\ call.out.text = "hello"
    /\ call.out.file_url = "https://x/a.png"
    /\ ExtractBestOutputOf(call.arg).text = call.out.text
    /\ ExtractBestOutputOf(call.arg).file_url = call.out.file_url

\* the model key comes first, the URL second, the choices last
C26_Witness ==
  /\ call.op = "extract"
  /\ ChatWithOneUrl(call.arg)
  /\ Len(call.arg.v) = 3
  /\ call.arg.v[1][1] = "model"
  /\ call.arg.v[3][1] = "choices"
  /\ call.out.text = "hello"


(***************************************************************************)
(* C27                                                                      *)
(***************************************************************************)
ControlWords ==
  {"stop", "assistant", "user", "chat.completion", "completed", "success",
   "failed", "queued", "processing"}

\* a text the search may return: not empty, not a control word, not an
\* alphabetic token of at most 4 characters
Acceptable(t) ==
  /\ t # ""
  /\ StrLower(t) \notin ControlWords
  /\ ~(Len(t) <= 4 /\ IsAlpha(t))

HoldsText(payload, k) ==
  Get(payload, k).t = "str" /\ Acceptable(StrStrip(Get(payload, k).v))

\* the first of text, output_text, content, message holding meaningful text
FlatField(payload) ==
  CASE HoldsText(payload, "text") -> "text"
    [] HoldsText(payload, "output_text") -> "output_text"
    [] HoldsText(payload, "content") -> "content"
    [] HoldsText(payload, "message") -> "message"
    [] OTHER -> None

\* the content of choices[0].message in the sampled payloads
ChoicesContent(payload) ==
  IF Get(payload, "choices").t = "list"
    THEN StrStrip(Get(Get(Get(payload, "choices").v[1], "message"), "content").v)
    ELSE ""

\* C27: the extracted text is the non-empty choices[0].message.content when
\* there is one; else the text of the first of the flat fields text,
\* output_text, content, message that holds meaningful text; only else the
\* result of the depth-first search, which is no text at all or a text that
\* is not empty, not a control word and not an alphabetic token of at most
\* 4 characters.
C27_TextPrecedence ==
  call.op = "extract" =>
    IF ChoicesContent(call.arg) # "" THEN call.out.text = ChoicesContent(call.arg)
    ELSE IF FlatField(call.arg) # None
      THEN call.out.text = StrStrip(Get(call.arg, FlatField(call.arg)).v)
    ELSE call.out.text = None \/ Acceptable(call.out.text)

\* the flat text is a control word, the search goes into the list
C27_Witness ==
  /\ call.op = "extract"
  /\ ChoicesContent(call.arg) = ""
  /\ Get(call.arg, "text").t = "str"
  /\ Get(call.arg, "text").v = " stop "
  /\ FlatField(call.arg) = None
  /\ call.out.text = "42"


(***************************************************************************)
(* C28                                                                      *)
(***************************************************************************)
\* the file references of the list in the task's metadata
MetaRefs(t) ==
  LET txt == t.input_text IN
  IF txt.sep /\ txt.valid /\ "tg_file_ids" \in DOMAIN txt.meta
    THEN { txt.meta["tg_file_ids"][k] : k \in 1..Len(txt.meta["tg_file_ids"]) }
           \ {"", None}
    ELSE {}

\* C28: while a task of a preset that requires input runs, the files handed
\* to Telegram are files of the metadata list when the list holds a
\* reference, and all of them by the time of the submit, the legacy
\* reference not being fetched; with no reference in the list only the
\* legacy reference is fetched; with neither, no fetch and no submit is made
\* and the task does not succeed.
C28_ListedFilesBeforeLegacy ==
  /\ (Running /\ NeedsInput(tasks[cur])) =>
       LET refs   == MetaRefs(tasks[cur])
           legacy == tasks[cur].input_tg_file_id
       IN  /\ refs # {} =>
                /\ obs.got \subseteq refs
                /\ (wpc = "submit" => obs.got = refs)
           /\ (refs = {} /\ legacy # None) =>
                /\ obs.got \subseteq {legacy}
                /\ (wpc = "submit" => obs.got = {legacy})
           /\ (refs = {} /\ legacy = None) =>
                /\ wpc \in {"load", "mark_processing", "prepare", "except"}
                /\ obs.got = {}
                /\ ~obs.tg
                /\ ~obs.posted
  /\ \A i \in TaskIds :
       (NeedsInput(tasks[i]) /\ MetaRefs(tasks[i]) = {}
          /\ tasks[i].input_tg_file_id = None) =>
         /\ tasks[i].status # "success"
         /\ ~Submitted(i)

\* the list holds f2, the legacy reference is f1
C28_Witness ==
  /\ Running
  /\ wpc = "submit"
  /\ tasks[cur].input_tg_file_id = "f1"
  /\ MetaRefs(tasks[cur]) = {"f2"}
  /\ obs.got = {"f2"}


(***************************************************************************)
(* The request of _submit: parameter values keep their Python type.         *)
(***************************************************************************)
MaxParams == 2

Bool(b) == [t |-> "bool", v |-> b]

Num(n) == [t |-> "num", v |-> n]

ParamKeys == {"prompt", "stream", "num_images"}

ParamValues ==
  {Str("cat"), Bool(TRUE), Bool(FALSE), Num(2), NoneVal, List(<<>>)}

\* the params dicts handed to the client
ParamDicts ==
  UNION { [K -> ParamValues] : K \in {S \in SUBSET ParamKeys : Cardinality(S) <= MaxParams} }

\* the files dicts, as the names of their fields
FileDicts == {{}, {"image"}}

NoData == [k \in {} |-> NoneVal]

\* _clean_payload, values kept: None and empty lists and dicts are dropped
CleanValues(p) ==
  [k \in {x \in DOMAIN p : ~(p[x].t = "none" \/ (p[x].t \in {"list", "dict"} /\ p[x].v = <<>>))}
     |-> p[k]]

\* str(v), and "true"/"false" for a bool
FormText(x) ==
  CASE x.t = "bool" -> IF x.v THEN "true" ELSE "false"
    [] x.t = "num" -> ToString(x.v)
    [] x.t = "str" -> x.v
    [] OTHER -> "[...]"

ToFormFields_KeepTypes(payload) == payload

\* _to_form_fields
ToFormFields(payload) ==
  [k \in {x \in DOMAIN payload : payload[x].t # "none"} |-> Str(FormText(payload[k]))]

\* _submit up to the request it sends: payload = dict(base_data);
\* payload.update(params); the body is JSON without files, else a form
SubmitRequest(base_data, files, params) ==
  LET payload == CleanValues(params @@ base_data) IN
  IF files = {}
    THEN [kind |-> "json", body |-> payload, files |-> {}]
    ELSE [kind |-> "multipart", body |-> ToFormFields(payload), files |-> files]

\* submit_function and submit_network
SubmitFunction(implementation, files, params) ==
  SubmitRequest([implementation |-> Str(implementation)], files, params)

SubmitNetwork(files, params) == SubmitRequest(NoData, files, params)

CallSubmitFunction ==
  /\ call.op = "none"
  /\ \E files \in FileDicts, params \in ParamDicts :
       Called("submit_function", [files |-> files, params |-> params],
              SubmitFunction("default", files, params))


CallSubmitNetwork ==
  /\ call.op = "none"
  /\ \E files \in FileDicts, params \in ParamDicts :
       Called("submit_network", [files |-> files, params |-> params],
              SubmitNetwork(files, params))


(***************************************************************************)
(* C29                                                                      *)
(***************************************************************************)
SameValue(x, y) == x.t = y.t /\ x.v = y.v

\* C29: a submit sends a JSON body exactly when no file is attached, with
\* every parameter it sends as the value the caller gave (a boolean stays a
\* boolean, a number a number), and a multipart body exactly when a file is
\* attached, with every field a string; a function submit carries the
\* implementation selector in either body.
C29_JsonWithoutFilesFormWithFiles ==
  call.op \in {"submit_function", "submit_network"} =>
    /\ call.out.kind = "json" <=> call.arg.files = {}
    /\ call.out.kind = "multipart" <=> call.arg.files # {}
    /\ call.out.files = call.arg.files
    /\ call.out.kind = "json" =>
         \A k \in DOMAIN call.out.body \cap DOMAIN call.arg.params :
           SameValue(call.out.body[k], call.arg.params[k])
    /\ call.out.kind = "multipart" =>
         \A k \in DOMAIN call.out.body : call.out.body[k].t = "str"
    /\ \A k \in DOMAIN call.arg.params :
         call.arg.params[k].t \in {"bool", "num", "str"} => k \in DOMAIN call.out.body
    /\ call.op = "submit_function" =>
         /\ "implementation" \in DOMAIN call.out.body
         /\ SameValue(call.out.body["implementation"], Str("default"))

C29_Witness ==
  /\ call.op = "submit_function"
  /\ call.arg.files = {"image"}
  /\ call.out.kind = "multipart"
  /\ DOMAIN call.out.body = {"implementation", "stream", "num_images"}
  /\ call.out.body["stream"].v = "true"
  /\ call.out.body["num_images"].v = "2"


(***************************************************************************)
(* C30                                                                      *)
(***************************************************************************)
\* the slug trimmed and lower-cased
TrimLower(s) ==
  CASE s = " Grok " -> "grok"
    [] OTHER -> s

\* the keys a task may send: the registered defaults of its preset, the
\* keys the executor sets and the allow-listed keys of its own metadata
OwnKeys(t) ==
  LET preset == PRESETS[TrimLower(t.preset_slug)]
      meta   == ParseTextAndMeta(t.input_text).meta
  IN  preset.params \cup ExecutorKeys(preset) \cup (DOMAIN meta \cap AllowList)

\* C30: resolving a slug gives the preset registered under the trimmed,
\* lower-cased slug or fails as not found; no step of any run changes the
\* default parameters of a preset; and the payload submitted for a task
\* holds only keys of that task, none left by an earlier task.
C30_RegistryStatic ==
  [][ /\ registry' = registry
      /\ registry = [s \in DOMAIN PRESETS |-> PRESETS[s].params]
      /\ (wpc = "load" /\ wpc' # wpc) =>
           IF TrimLower(tasks[cur].preset_slug) \in DOMAIN PRESETS
             THEN wpc' = "mark_processing"
             ELSE /\ wpc' = "except"
                  /\ loc'.exc = <<"'Preset not found: ", TrimLower(tasks[cur].preset_slug), "'">>
      /\ (wpc = "prepare" /\ wpc' \in {"fetch", "submit"}) =>
           /\ DOMAIN loc'.params \subseteq OwnKeys(tasks[cur])
           /\ PRESETS[TrimLower(tasks[cur].preset_slug)].params \subseteq DOMAIN loc'.params
      /\ (wpc = "submit" /\ obs'.posted) =>
           obs'.payload \subseteq OwnKeys(tasks[cur]) ]_vars

\* the second task of the preset is submitted after a first one that set
\* aspect_ratio
C30_Witness ==
  /\ Len(tasks) = 2
  /\ cur = 2
  /\ wpc = "poll"
  /\ obs.posted
  /\ obs.payload # {}
  /\ tasks[1].preset_slug = tasks[2].preset_slug
  /\ tasks[1].status = "success"
  /\ "aspect_ratio" \in DOMAIN ParseTextAndMeta(tasks[1].input_text).meta
  /\ "aspect_ratio" \notin DOMAIN ParseTextAndMeta(tasks[2].input_text).meta
  /\ "aspect_ratio" \notin obs.payload
  /\ registry = InitRegistry


(***************************************************************************)
(* The backoff delays of _request_with_retry and of the poll loop.  Times  *)
(* are fixed-point numbers, one unit = 10^-7 s, so that every product by   *)
(* 1.6 and 1.4 of the delays below is exact.  The record of a call holds   *)
(* the delays taken so far: intervals is the poll loop's delay, one entry  *)
(* per iteration, delays is the request's delay, one entry per attempt.    *)
(***************************************************************************)
MaxPollIters == 6

Tenth == 1000000

Min(a, b) == IF a <= b THEN a ELSE b

Max(a, b) == IF a >= b THEN a ELSE b

\* delay = max(0.6, float(base_delay))
StartDelay(base_delay) == Max(6 * Tenth, base_delay)

NextDelay_NoCap(delay) == (delay * 16) \div 10

\* delay = min(delay * 1.6, 10.0)
NextDelay(delay) == Min((delay * 16) \div 10, 100 * Tenth)

\* delay = min(delay * 1.4, 5.0)
NextInterval(delay) == Min((delay * 14) \div 10, 50 * Tenth)

\* base_delay: float = 1.0
DefaultBaseDelay == 10 * Tenth

Backoff(op, intervals, delays) ==
  /\ call' = [op |-> op, arg |-> None,
              out |-> [intervals |-> intervals, delays |-> delays]]
  /\ UNCHANGED <<tasks, store, wpc, cur, loc, http, clock, obs, subs, w2, env, registry, wait>>

\* _submit calls _request_with_retry without a base delay
BackoffSubmitStart ==
  /\ call.op = "none"
  /\ Backoff("submit", <<>>, <<StartDelay(DefaultBaseDelay)>>)

\* poll: delay = 1.0
BackoffPollStart ==
  /\ call.op = "none"
  /\ Backoff("poll", <<10 * Tenth>>, <<>>)

\* an iteration of the poll loop calls _request_with_retry(base_delay=delay)
BackoffPollRequest ==
  /\ call.op = "poll"
  /\ call.out.delays = <<>>
  /\ Backoff("poll", call.out.intervals,
             <<StartDelay(call.out.intervals[Len(call.out.intervals)])>>)

\* a retryable status or a network error before the last attempt
BackoffRetry ==
  /\ call.op \in {"submit", "poll"}
  /\ call.out.delays # <<>>
  /\ Len(call.out.delays) <= (IF call.op = "submit" THEN max_submit_retries
                                                     ELSE max_poll_retries)
  /\ Backoff(call.op, call.out.intervals,
             Append(call.out.delays, NextDelay(call.out.delays[Len(call.out.delays)])))

\* a response that is not terminal: sleep, then the next iteration
BackoffPollSleep ==
  /\ call.op = "poll"
  /\ call.out.delays # <<>>
  /\ Len(call.out.intervals) <= MaxPollIters
  /\ Backoff("poll",
             Append(call.out.intervals,
                    NextInterval(call.out.intervals[Len(call.out.intervals)])),
             <<>>)


(***************************************************************************)
(* C31                                                                      *)
(***************************************************************************)
InBackoff == call.op \in {"submit", "poll"}

\* s starts at no less than low (exactly at low when exact), every entry is
\* the one before times num/10 or the cap, no entry is above the cap and no
\* entry is below the one before
Grows(s, low, exact, num, cap) ==
  /\ s # <<>> => /\ s[1] >= low
                 /\ exact => s[1] = low
  /\ \A j \in 1..Len(s) :
       /\ s[j] <= cap
       /\ j > 1 => /\ s[j] >= s[j - 1]
                   /\ \/ s[j] * 10 = s[j - 1] * num
                      \/ s[j] = cap /\ s[j - 1] * num >= cap * 10

\* C31: the delay of a retried HTTP call starts at no less than 0.6 s, is
\* multiplied by 1.6 after each retry and never exceeds 10 s; the poll
\* interval starts at 1 s, is multiplied by 1.4 after each non-terminal
\* response and never exceeds 5 s; neither ever decreases.
C31_BackoffBoundedAndGrowing ==
  InBackoff =>
    /\ Grows(call.out.delays, 6000000, FALSE, 16, 100000000)
    /\ Grows(call.out.intervals, 10000000, TRUE, 14, 50000000)

\* a poll whose interval has reached 5 s, in a request that has used every
\* retry and whose delay has reached 10 s
C31_Witness ==
  /\ call.op = "poll"
  /\ Len(call.out.intervals) >= 6
  /\ call.out.intervals[Len(call.out.intervals)] = 50000000
  /\ Len(call.out.delays) = max_poll_retries + 1
  /\ call.out.delays[Len(call.out.delays)] = 100000000


(***************************************************************************)
(* C32                                                                      *)
(***************************************************************************)
\* the control points whose step is an external call: tg_download_file and
\* the staging write, the provider POST, the status GET, the download of the
\* output and its write
ExternalCallPc == {"fetch", "submit", "poll", "download"}

\* the run under way has made an external call
MadeExternalCall ==
  \/ obs.tg
  \/ obs.wrote
  \/ obs.posted
  \/ obs.sent > 0
  \/ obs.fetched > 0
  \/ obs.dl[2] # "none"

\* every key an input file of task i can be staged under
UploadKeys(i) ==
  { UploadKey(i, PRESETS[NormSlug(tasks[i].preset_slug)].slug, n, ".png") :
      n \in 1..(MAX_INPUT_FILES + 1) }

ArtifactsOf(i) ==
  IF NormSlug(tasks[i].preset_slug) \in DOMAIN PRESETS
    THEN store \cap (UploadKeys(i) \cup ResultKeys(i))
    ELSE {}

\* C32: the update to processing, which also clears error_message, is
\* committed before the first external call of a run: whenever the worker
\* is about to fetch, submit, poll or download, or the run has made such a
\* call, the task in hand is processing with no error message; a queued
\* task has no accepted submission and no artifact in the store.
C32_ExternalCallsOnlyWhileProcessing ==
  /\ (wpc \in ExternalCallPc \/ MadeExternalCall) =>
       /\ cur \in DOMAIN tasks
       /\ tasks[cur].status = "processing"
       /\ tasks[cur].error_message = NoError
  /\ \A i \in DOMAIN tasks :
       tasks[i].status = "queued" =>
         /\ \A k \in 1..Len(subs) : subs[k] # i
         /\ ArtifactsOf(i) = {}

\* a run that has fetched its input, staged it, submitted and polled and is
\* about to download the output, with a second task still queued
C32_Witness ==
  /\ wpc = "download"
  /\ obs.tg /\ obs.wrote /\ obs.posted
  /\ \E k \in 1..Len(subs) : subs[k] = cur
  /\ ArtifactsOf(cur) # {}
  /\ \E i \in DOMAIN tasks : i # cur /\ tasks[i].status = "queued"


(***************************************************************************)
(* C33                                                                      *)
(***************************************************************************)
\* the number of submissions the provider has accepted for task i
Accepted(i) == Cardinality({ k \in 1..Len(subs) : subs[k] = i })

\* C33: for each task at most one generation request is accepted by the
\* provider, also when a submit request reached the provider and its
\* response was lost to a timeout or connection error.
C33_AtMostOneAcceptedSubmission ==
  \A i \in DOMAIN tasks : Accepted(i) <= 1


(***************************************************************************)
(* C34                                                                      *)
(***************************************************************************)
\* the translate_input value of the task's metadata, "" when there is none
AskedTranslate(t) ==
  LET meta == ParseTextAndMeta(t.input_text).meta IN
  IF "translate_input" \in DOMAIN meta THEN meta["translate_input"] ELSE ""

\* C34: every network-dispatch submission carries translate_input = false,
\* whatever the task's metadata says: once a run has sent a POST, the
\* payload of that POST holds translate_input with the value false.
C34_TranslateInputAlwaysFalse ==
  obs.posted /\ obs.sent > 0 =>
    /\ "translate_input" \in obs.payload
    /\ obs.ti = "false"

\* a POST has been sent for an image task whose metadata asks for
\* translate_input = true, and the parameters built from the metadata held
\* true
C34_Witness ==
  /\ obs.posted /\ obs.sent > 0
  /\ wpc \in {"submit", "poll"}
  /\ AskedTranslate(tasks[cur]) = "true"
  /\ loc.params["translate_input"] = "true"
  /\ obs.ti = "false"


(***************************************************************************)
(* C35                                                                      *)
(***************************************************************************)
\* the run of task i ended on _ensure_file_size or _ensure_file_count
FailedValidation(i) ==
  /\ tasks[i].status = "failed"
  /\ \/ Contains(tasks[i].error_message, "File too large ")
     \/ Contains(tasks[i].error_message, "Too many files: max ")

\* the input files of task i that are in the store
StagedUploads(i) ==
  IF NormSlug(tasks[i].preset_slug) \in DOMAIN PRESETS
    THEN store \cap UploadKeys(i)
    ELSE {}

\* C35: a task that fails input validation leaves the artifact store
\* unchanged: when an input file of the task is rejected (too large, or
\* the count is over the limit), no upload artifact of that task has been
\* written, also when the rejected file is the second of two.
C35_RejectedInputLeavesNoUpload ==
  \A i \in DOMAIN tasks : FailedValidation(i) => StagedUploads(i) = {}


(***************************************************************************)
(* C36                                                                      *)
(***************************************************************************)
\* C36: the outcome the front-end wait reports agrees with the task record:
\* once wait_task_done has returned status success or failed for a task,
\* the task's status in the store is that same terminal status, then and at
\* every later time.
C36_ReportedOutcomeIsTheRecord ==
  wait.pc = "done" => tasks[wait.task].status = wait.status


(***************************************************************************)
(* C37                                                                      *)
(***************************************************************************)
\* C37: with a single worker, in every reachable state a task with status
\* success or processing has no error_message, a task with status failed
\* has an error_message and no artifact key, and a task with status queued
\* has neither result nor error.
C37_StatusAgreesWithFields ==
  \A i \in TaskIds :
    LET t == tasks[i] IN
    /\ t.status \in {"success", "processing"} => t.error_message = NoError
    /\ t.status = "failed" => /\ t.error_message # NoError
                              /\ t.result_file_key = None
    /\ t.status = "queued" => /\ t.result_file_key = None
                              /\ t.result_text = None
                              /\ t.error_message = NoError

\* a task that failed after its run had written an artifact to the store
C37_Witness ==
  \E i \in TaskIds :
    /\ tasks[i].status = "failed"
    /\ tasks[i].error_message # NoError
    /\ ArtifactsOf(i) # {}


(***************************************************************************)
(* C38                                                                      *)
(***************************************************************************)
\* C38: the text returned by the output extractor is never an http(s) URL:
\* on every path a string starting with http:// or https:// is a URL
\* candidate only.
C38_TextIsNeverUrl ==
  call.op = "extract" => ~IsUrl(call.out.text)


(***************************************************************************)
(* Payloads that hold URLs at several places: at the top, in a list, in a  *)
(* nested object, the same URL more than once, URLs of equal score.         *)
(***************************************************************************)
UrlMembers ==
  { <<"output", Str("https://x/a.mp3")>>,
    <<"cover", Str("https://x/cover.mp3")>>,
    <<"image", Str("https://x/a.png")>>,
    <<"files", List(<<Str("https://x/uploads/a.mp3"), Str("https://x/a.mp3"),
                      Str("https://x/uploads/a.mp3")>>)>>,
    <<"data", Dict(<< <<"id", Str("42")>>, <<"url", Str("https://x/cover.mp3")>> >>)>>,
    <<"text", Str("hi there")>>,
    <<"status", Str("success")>> }

UrlPayloads ==
  { Dict(ps) : ps \in
      { s \in UNION { [1..n -> UrlMembers] : n \in 0..MaxKeys } :
          \A i, j \in 1..Len(s) : i # j => s[i][1] # s[j][1] } }

\* _pick_best_url(_collect_urls(payload)) of the client and of the executor
CallCollectPick ==
  /\ call.op = "none"
  /\ \E payload \in UrlPayloads :
       Called("collect_pick", payload,
              [urls |-> CollectUrls(payload),
               client |-> PickBestUrl(CollectUrls(payload)),
               executor |-> ExecutorPickBestUrl(CollectUrls(payload))])


(***************************************************************************)
(* C39                                                                      *)
(***************************************************************************)
\* the strings of a member's value, in document order (the sampled values
\* are strings, lists of strings and objects of strings)
Strings(x) ==
  CASE x.t = "str" -> <<x.v>>
    [] x.t = "list" -> [j \in 1..Len(x.v) |-> x.v[j].v]
    [] x.t = "dict" -> [j \in 1..Len(x.v) |-> x.v[j][2].v]
    [] OTHER -> <<>>

\* the places of a payload that hold an http(s) string: member, then place
\* within the member
UrlPlaces(payload) ==
  { p \in (1..Len(payload.v)) \X (1..3) :
      /\ p[2] <= Len(Strings(payload.v[p[1]][2]))
      /\ IsUrl(Strings(payload.v[p[1]][2])[p[2]]) }

UrlAt(payload, p) == Strings(payload.v[p[1]][2])[p[2]]

\* depth-first order of two places
Earlier(p, q) == p[1] < q[1] \/ (p[1] = q[1] /\ p[2] < q[2])

\* u is first seen at an earlier place than w
SeenBefore(payload, u, w) ==
  \E p \in UrlPlaces(payload) :
    /\ UrlAt(payload, p) = u
    /\ \A q \in UrlPlaces(payload) : UrlAt(payload, q) = w => Earlier(p, q)

\* pick is the first URL of the list with the lowest score, None for no URL
FirstOfLowest(pick, urls, scores) ==
  IF urls = <<>> THEN pick = None
  ELSE \E k \in 1..Len(urls) :
         /\ pick = urls[k]
         /\ \A l \in 1..Len(urls) : ~ScoreLess(scores[l], scores[k])
         /\ \A l \in 1..(k - 1) : ScoreLess(scores[k], scores[l])

\* C39: URL candidates are collected depth-first without duplicates in
\* first-seen order, and ranking is stable: of several candidates with the
\* same lowest (rank, penalty) score the one seen first is returned; the
\* picker returns no URL exactly when the payload holds no http(s) string.
C39_CollectedInOrderPickedStably ==
  call.op = "collect_pick" =>
    LET payload == call.arg
        urls    == call.out.urls
    IN
    /\ {urls[k] : k \in 1..Len(urls)} = {UrlAt(payload, p) : p \in UrlPlaces(payload)}
    /\ \A k, l \in 1..Len(urls) : k < l => /\ urls[k] # urls[l]
                                           /\ SeenBefore(payload, urls[k], urls[l])
    /\ FirstOfLowest(call.out.client, urls, [k \in 1..Len(urls) |-> ClientScore(urls[k])])
    /\ FirstOfLowest(call.out.executor, urls, [k \in 1..Len(urls) |-> ExecutorScore(urls[k])])
    /\ (call.out.client = None) = (UrlPlaces(payload) = {})
    /\ (call.out.executor = None) = (UrlPlaces(payload) = {})

\* a payload with a URL in a list and one in a nested object, one URL at
\* two places, and two different URLs of the same lowest score for the
\* client, of which the first seen is picked
C39_Witness ==
  /\ call.op = "collect_pick"
  /\ Cardinality(UrlPlaces(call.arg)) > Len(call.out.urls)
  /\ Len(call.out.urls) >= 3
  /\ \E k, l \in 1..Len(call.out.urls) :
       /\ k < l
       /\ call.out.client = call.out.urls[k]
       /\ ClientScore(call.out.urls[k]) = ClientScore(call.out.urls[l])
  /\ \E i \in 1..Len(call.arg.v) : call.arg.v[i][2].t = "list"
  /\ \E i \in 1..Len(call.arg.v) : call.arg.v[i][2].t = "dict"


(***************************************************************************)
(* Input texts whose metadata part is not a JSON object.                    *)
(***************************************************************************)
\* what may follow the delimiter: nothing, blanks, a truncated object, a
\* word, a list (also between blanks), a number, null, a string
BadMetaTexts ==
  { <<>>, <<" ">>, <<"{", "\"title\"">>, <<"a">>, <<"{", "}", "}">>,
    <<"[", "]">>, <<" ", "[", "]", "\n">>, <<"42">>, <<"null">>,
    <<"\"", "a", "\"">> }

\* the prompt as the executor tests it: empty or not
Shown(prompt) == IF prompt = <<>> THEN "" ELSE "cat"

\* _parse_text_and_meta on the text, then the parameters of an image preset
CallDecodeRaw ==
  /\ call.op = "none"
  /\ \E p \in Prompts, j \in BadMetaTexts :
       LET parsed == DecodeInputText(p \o SEP \o j) IN
       Called("decode_raw", <<p, j>>,
              [parsed |-> parsed,
               params |-> BuildParams(GetPreset("img_nb_std_create"),
                                      [prompt |-> Shown(parsed.prompt),
                                       meta |-> parsed.meta])])


(***************************************************************************)
(* C40                                                                      *)
(***************************************************************************)
\* the delimiter written after the prompt is the first one of the text
DelimiterIsFirst(p) == Occurrences(p \o SEP, SEP) = {Len(p) + 1}

\* C40: metadata that follows the delimiter but is not a valid JSON object
\* (malformed JSON, or a JSON value that is not an object) never fails the
\* decoding: it returns the trimmed prompt with empty metadata, and the
\* parameters are the preset's defaults (with the prompt, when there is one).
C40_BadMetadataDecodesToEmpty ==
  (call.op = "decode_raw" /\ DelimiterIsFirst(call.arg[1])) =>
    /\ call.out.parsed.meta = NoMeta
    /\ call.out.parsed.prompt = Strip(call.arg[1])
    /\ DOMAIN call.out.params =
         {"translate_input", "num_images", "output_format", "resolution"}
           \cup (IF Strip(call.arg[1]) # <<>> THEN {"prompt"} ELSE {})
    /\ call.out.params["translate_input"] = "false"

\* a prompt written between blanks, followed by the delimiter and a JSON
\* list between blanks
C40_Witness ==
  /\ call.op = "decode_raw"
  /\ DelimiterIsFirst(call.arg[1])
  /\ call.arg[2] = <<" ", "[", "]", "\n">>
  /\ Len(call.arg[1]) = 3
  /\ call.out.parsed.prompt # call.arg[1]
  /\ call.out.parsed.prompt # <<>>
  /\ call.out.parsed.meta = NoMeta

\* the calls of the helper functions
FnNext ==
  \/ CallClientPick
  \/ CallExecutorPick
  \/ CallDecodeEncoded
  \/ CallDecodeRaw
  \/ CallExtract
  \/ CallSubmitFunction
  \/ CallSubmitNetwork
  \/ CallCollectPick
  \/ BackoffSubmitStart
  \/ BackoffPollStart
  \/ BackoffPollRequest
  \/ BackoffRetry
  \/ BackoffPollSleep
  \/ CallReturn

FnSpec == Init /\ [][FnNext]_vars

====
